---- MODULE Spec2Model ----
(***************************************************************************)
(* shaka.util.AbortableOperation (src/lib/media/gap_jumping_controller.js, *)
(* lines 311-544): the operation wrapper, its abort() memoisation and the  *)
(* chain() combinator, as a state machine over promises.                   *)
(*                                                                         *)
(* The scenario is the pipeline  B = A.chain(onSuccess, onError),          *)
(* D = B.chain(onSuccess, onError)  over a leaf A that a collaborator      *)
(* constructed with its own promise and abort callback.  A continuation of *)
(* B may return a plain value, a bare promise P, the nested operation C,   *)
(* or throw; a continuation of D likewise with Q and E.                    *)
(*                                                                         *)
(* A second scenario (SpecAll) has the factories: K = completed(v),        *)
(* F = failed(e), N = notAbortable(promise), a leaf M, and the aggregate   *)
(* G = all(members) over a list of these.  A third (SpecFactories) has N,   *)
(* K and F on their own, with finally() called on them; a fourth            *)
(* (SpecAborted) has X = aborted() and the chain Y = X.chain(onSuccess,     *)
(* onError), whose continuation may return the bare promise R or the        *)
(* nested operation Z.                                                      *)
(*                                                                         *)
(* shaka.media.GapJumpingController (lines 27-288 of the same file) has a  *)
(* scenario of its own (SpecGap): one controller on a media element whose  *)
(* state changes under it, polled by its timer, the 'waiting' event and    *)
(* its three handlers.                                                     *)
(***************************************************************************)
EXTENDS Integers, Sequences, FiniteSets, TLC

\* Values a promise is fulfilled with are 1..MaxVal (and what callbacks make
\* of them); at most MaxAbortCalls calls of abort() come from outside.
MaxVal == 2
MaxAbortCalls == 2

\* all() is given NumMembers operations.
NumMembers == 2

\* finally() is called at most MaxFinally times on an operation.
MaxFinally == 1

Leaves == {"A", "C", "E", "M", "Z"}
Chains == {"B", "D", "Y"}
NotAbortables == {"N"}
Completed == {"K"}
Failed == {"F"}
Aborted == {"X"}
Aggregates == {"G"}
Ops == Leaves \cup Chains \cup NotAbortables \cup Completed \cup Failed
         \cup Aborted \cup Aggregates
BarePromises == {"P", "Q", "R"}
\* The promise of the aggregate is the variable allPromise.
PromiseIds == (Ops \ Aggregates) \cup BarePromises

\* The operations all() may be given, and the lists of them.
Pool == {"M", "N", "K", "F"}
MemberLists ==
  {l \in [1 .. NumMembers -> Pool] :
     \A i, j \in 1 .. NumMembers : l[i] = l[j] => i = j}

\* "this" of each chain() call, and what the callback of each chain may return.
upstream == [B |-> "A", D |-> "B", Y |-> "X"]
nestedOf == [B |-> "C", D |-> "E", Y |-> "Z"]
bareOf == [B |-> "P", D |-> "Q", Y |-> "R"]

Values == 1 .. MaxVal
AbortError == "OPERATION_ABORTED"
Err == "ERROR"
Err2 == "ERROR2"
Boom == "THROWN"

VARIABLES
  promise,        \* promise id -> [st, val, err, to]: the state of each promise
  abortPromise_,  \* op -> the cached promise of abort(), Null before
  abortFn,        \* chain -> which closure the variable "abort" of chain() holds
  cb,             \* chain -> what the then-callback of chain() did, "waiting" before
  exists,         \* op -> whether the operation has been constructed
  cleanup,        \* promise returned by an abort function -> its state
  calls,          \* op -> how often onAbort_ of the operation was invoked
  nAbort,         \* how many abort() calls came from outside, in total
  abortPhase,     \* op -> where the operation stood at its first abort() call
  firstRet,       \* op -> what the first abort() call on the operation returned
  usedFn,         \* chain -> the abort functions "() => abort()" has called
  lastAbort,      \* the last outside abort() call: [op, ret, phase]
  cbArgs,         \* chain -> the arguments its onSuccess/onError were called with
  members,        \* the operations given to all(), in order
  allPromise,     \* the promise of all(): [st, vals, err]
  reactions,      \* indices of members in the order their promises settled
  nReacted,       \* how many of these Promise.all has reacted to
  final,          \* op -> finally(): [n, args, ret], the calls made on the
                  \* operation, the flags onFinal was called with, and what
                  \* the last call returned
  video,          \* the media element: [readyState, seeking, paused, autoplay,
                  \* currentTime]
  controller,     \* the fields of the GapJumpingController
  config,         \* [pads, gapPadding]: whether the platform is one of those
                  \* the jump target is padded on, and config_.gapPadding
  sent,           \* the events given to onEvent_, in order
  announced,      \* whether the controller was told of the seek the element
                  \* is in
  lastCall,       \* the later of the last onSeeking() and onSegmentAppended()
  lastJump        \* what the poll of the step just taken read and wrote, if
                  \* it jumped

aggVars == <<members, allPromise, reactions, nReacted>>

gjcVars == <<video, controller, config, sent, announced, lastCall, lastJump>>

vars == <<promise, abortPromise_, abortFn, cb, exists, cleanup, calls, nAbort,
          abortPhase, firstRet, usedFn, lastAbort, cbArgs, final, aggVars,
          gjcVars>>

----------------------------------------------------------------------------
\* Promises.  A promise is pending, fulfilled (val) or rejected (err); a pending
\* promise that was resolved with another promise follows it (to).

PendingPromise == [st |-> "pending", val |-> 0, err |-> "", to |-> ""]
Fulfilled(v) == [st |-> "fulfilled", val |-> v, err |-> "", to |-> ""]
Rejected(e) == [st |-> "rejected", val |-> 0, err |-> e, to |-> ""]

Settled(p) == p.st \in {"fulfilled", "rejected"}

\* resolve/reject act on a promise that is neither settled nor following.
Unresolved(p) == p.st = "pending" /\ p.to = ""

PResolve(pr, id, v) ==
  IF Unresolved(pr[id]) THEN [pr EXCEPT ![id] = Fulfilled(v)] ELSE pr

\* A mutant of PReject: a settled promise is rejected again.
PRejectAgain(pr, id, e) ==
  IF pr[id].to = "" THEN [pr EXCEPT ![id] = Rejected(e)] ELSE pr

PReject(pr, id, e) ==
  IF Unresolved(pr[id]) THEN [pr EXCEPT ![id] = Rejected(e)] ELSE pr

PResolveWith(pr, id, target) ==
  IF Unresolved(pr[id]) THEN [pr EXCEPT ![id].to = target] ELSE pr

\* The promise of Promise.all: fulfilled with the list of values (vals), or
\* rejected (err).
PendingAll == [st |-> "pending", vals |-> <<>>, err |-> ""]

\* No finally() call was made on the operation.
NoFinally == [n |-> 0, args |-> <<>>, ret |-> ""]

\* No GapJumpingController has been constructed.
NoController ==
  /\ video = [readyState |-> 0, seeking |-> FALSE, paused |-> TRUE,
              autoplay |-> FALSE, currentTime |-> 0]
  /\ controller = [constructed |-> FALSE]
  /\ config = [pads |-> FALSE, gapPadding |-> 0]
  /\ sent = <<>>
  /\ announced = FALSE
  /\ lastCall = ""
  /\ lastJump = [jumped |-> FALSE]

\* The promises abort functions return: <<kind, op, n>>, the n-th promise of
\* that kind made for op.
Null == <<"null", "", 0>>

----------------------------------------------------------------------------
\* abort().  One call runs to its end within a turn, through every abort
\* function it reaches; s is the part of the state a call can change, with
\* s.ret what the call returns.

AbortState ==
  [promise |-> promise, abortPromise_ |-> abortPromise_, cleanup |-> cleanup,
   calls |-> calls, abortPhase |-> abortPhase, firstRet |-> firstRet,
   usedFn |-> usedFn, ret |-> Null]

\* Where operation o stands: a leaf by its own promise; a chain by its
\* upstream's promise before its then-callback has run ("pending", "settled"),
\* and after that by its own promise and the promise that one follows.
Phase(s, o) ==
  IF o \in Aggregates
    THEN (IF Settled(allPromise) THEN "leafSettled" ELSE "leafPending")
  ELSE IF o \notin Chains
    THEN (IF Settled(s.promise[o]) THEN "leafSettled" ELSE "leafPending")
    ELSE IF cb[o] = "waiting"
      THEN (IF Settled(s.promise[upstream[o]]) THEN "settled" ELSE "pending")
      ELSE IF Settled(s.promise[o]) THEN "ranSettled"
      ELSE IF s.promise[o].to # "" /\ Settled(s.promise[s.promise[o].to])
        THEN "ranFollowing"
        ELSE "ranPending"

NewCleanup(s, id, st) ==
  [s EXCEPT !.cleanup = (id :> st) @@ @, !.ret = id]

RECURSIVE AbortCall(_, _)

\* The onAbort a collaborator gave the constructor: it starts the cleanup and
\* returns a promise the collaborator resolves when the cleanup is done.
LeafOnAbort(s, o) ==
  NewCleanup(s, <<"cleanup", o, s.calls[o]>>, "pending")

\* A mutant of UpstreamAbort: the new promise is left alone.
UpstreamAbortNoReject(s, o) ==
  AbortCall(s, upstream[o])

\* A mutant of UpstreamAbort: "this" is not aborted.
UpstreamAbortNoPropagate(s, o) ==
  NewCleanup([s EXCEPT !.promise = PReject(@, o, AbortError)],
             <<"noop", o, s.calls[o]>>, "resolved")

\* A mutant of UpstreamAbort: "return this.abort().then(() => {});", a
\* promise of its own.
UpstreamAbortOwnPromise(s, o) ==
  NewCleanup(AbortCall([s EXCEPT !.promise = PReject(@, o, AbortError)],
                       upstream[o]),
             <<"wait", o, s.calls[o]>>, "pending")

\* let abort = () => { newPromise.reject(abortError); return this.abort(); }
UpstreamAbort(s, o) ==
  AbortCall([s EXCEPT !.promise = PReject(@, o, AbortError)], upstream[o])

\* A mutant of NestedAbort: "return ret.abort;", the method without its
\* receiver, whose call fails on "this" before it aborts anything.
NestedAbortUnbound(s, o) ==
  [s EXCEPT !.ret = Null]

\* return () => ret.abort();
NestedAbort(s, o) ==
  AbortCall(s, nestedOf[o])

\* return () => Promise.resolve(ret).then(() => {}, () => {});
\* the promise is pending until ret has settled (WaitSettles)
BareAbort(s, o) ==
  NewCleanup(s, <<"wait", o, s.calls[o]>>, "pending")

\* return () => Promise.resolve();
NoopAbort(s, o) ==
  NewCleanup(s, <<"noop", o, s.calls[o]>>, "resolved")

\* A mutant of ResolvedOnAbort: () => new Promise(() => {}), which stays
\* pending.
ResolvedOnAbortNever(s, o) ==
  NewCleanup(s, <<"noop", o, s.calls[o]>>, "pending")

\* completed(), failed(), aborted():  () => Promise.resolve()
ResolvedOnAbort(s, o) ==
  NewCleanup(s, <<"noop", o, s.calls[o]>>, "resolved")

\* notAbortable():  () => promise.catch(() => {})
\* the promise is pending until the given promise has settled (CatchSettles)
CatchOnAbort(s, o) ==
  NewCleanup(s, <<"catch", o, s.calls[o]>>, "pending")

RECURSIVE AbortMembers(_, _)

\* operations.map((op) => op.abort()): abort() of every member from the i-th
\* on, in the order of the list.
AbortMembers(s, i) ==
  IF i > Len(members) THEN s ELSE AbortMembers(AbortCall(s, members[i]), i + 1)

\* A mutant of AllOnAbort: members whose promise has settled are skipped.
AllOnAbortSkipSettled(s, o) ==
  LET RECURSIVE Each(_, _)
      Each(r, i) ==
        IF i > Len(members) THEN r
        ELSE IF Settled(r.promise[members[i]]) THEN Each(r, i + 1)
        ELSE Each(AbortCall(r, members[i]), i + 1)
  IN NewCleanup(Each(s, 1), <<"all", o, s.calls[o]>>, "pending")

\* all():  () => Promise.all(operations.map((op) => op.abort()))
\* the promise is pending until the members' promises have resolved
\* (AllCleanupDone)
AllOnAbort(s, o) ==
  NewCleanup(AbortMembers(s, 1), <<"all", o, s.calls[o]>>, "pending")

\* () => abort(): the closure chain() gives the constructor calls whatever the
\* variable "abort" holds at the time.
ChainOnAbort(s, o) ==
  CASE abortFn[o] = "upstream" -> UpstreamAbort(s, o)
    [] abortFn[o] = "nested" -> NestedAbort(s, o)
    [] abortFn[o] = "bare" -> BareAbort(s, o)
    [] abortFn[o] = "noop" -> NoopAbort(s, o)

onAbort_(s, o) ==
  CASE o \in Leaves -> LeafOnAbort([s EXCEPT !.calls[o] = @ + 1], o)
    [] o \in Chains ->
         ChainOnAbort([s EXCEPT !.calls[o] = @ + 1,
                                !.usedFn[o] = Append(@, abortFn[o])], o)
    [] o \in Completed \cup Failed \cup Aborted ->
         ResolvedOnAbort([s EXCEPT !.calls[o] = @ + 1], o)
    [] o \in NotAbortables -> CatchOnAbort([s EXCEPT !.calls[o] = @ + 1], o)
    [] o \in Aggregates -> AllOnAbort([s EXCEPT !.calls[o] = @ + 1], o)

\* A mutant of abort: what onAbort_ returns is not kept.
abortNoStore(s, o) ==
  IF s.abortPromise_[o] = Null
    THEN onAbort_(s, o)
    ELSE [s EXCEPT !.ret = s.abortPromise_[o]]

\* A mutant of abort: onAbort_ is called whether or not a promise is cached.
abortNoMemo(s, o) ==
  LET r == onAbort_(s, o) IN [r EXCEPT !.abortPromise_[o] = r.ret]

\* abort() { if (!this.abortPromise_) { this.abortPromise_ = this.onAbort_(); }
\*           return this.abortPromise_; }
abort(s, o) ==
  IF s.abortPromise_[o] = Null
    THEN LET r == onAbort_(s, o) IN [r EXCEPT !.abortPromise_[o] = r.ret]
    ELSE [s EXCEPT !.ret = s.abortPromise_[o]]

\* A call of o.abort(), from outside or from an abort function, with the
\* record of the first call on o: where o stood and what the call returned.
AbortCall(s, o) ==
  LET r == abort(s, o)
  IN [r EXCEPT !.abortPhase[o] = IF @ = "never" THEN Phase(s, o) ELSE @,
               !.firstRet[o] = IF @ = Null THEN r.ret ELSE @]

\* get aborted() { return this.abortPromise_ !== null; }
aborted(o) == abortPromise_[o] # Null

----------------------------------------------------------------------------
\* chain(onSuccess, onError).

\* What the callback given to chain() does when invoked.  Which callbacks a
\* chain was given shows only when its then-callback runs, so the choice is
\* made there: "absent" (no callback for the branch), or the callback returns
\* a plain value, a bare promise, a nested operation, or throws.
CbKinds == {"absent", "plain", "bare", "nested", "throw"}

\* The plain value a callback returns: onSuccess is v => v * 2, onError
\* recovers with 0.
PlainValue(isSuccess, v) == IF isSuccess THEN v * 2 ELSE 0

\* A mutant of StopsRightAway: the flag read is the new operation's.
StopsOnOwnAbort(o, isSuccess) ==
  abortPromise_[o] # Null /\ isSuccess

\* A mutant of StopsRightAway: the flag is read the wrong way round.
StopsOnFailure(o, isSuccess) ==
  abortPromise_[upstream[o]] # Null /\ ~isSuccess

\* A mutant of StopsRightAway: the callback is called whatever was aborted.
StopsNever(o, isSuccess) == FALSE

\* if (this.abortPromise_ && isSuccess)
StopsRightAway(o, isSuccess) ==
  abortPromise_[upstream[o]] # Null /\ isSuccess

\* A mutant of WrapPromise: a promise the callback returned is not passed to
\* newPromise.resolve.
WrapPromiseDropsPromise(o, kind, isSuccess, v) ==
  CASE kind = "nested" -> PResolveWith(promise, o, nestedOf[o])
    [] kind = "bare" -> promise
    [] kind = "plain" -> PResolve(promise, o, PlainValue(isSuccess, v))
    [] kind = "throw" -> PReject(promise, o, Boom)

\* A mutant of WrapPromise: the catch block drops the exception.
WrapPromiseCatchDrops(o, kind, isSuccess, v) ==
  CASE kind = "nested" -> PResolveWith(promise, o, nestedOf[o])
    [] kind = "bare" -> PResolveWith(promise, o, bareOf[o])
    [] kind = "plain" -> PResolve(promise, o, PlainValue(isSuccess, v))
    [] kind = "throw" -> PResolve(promise, o, 0)

\* A mutant of WrapPromise: newPromise.resolve(value) in place of
\* newPromise.resolve(ret).
WrapPromiseInput(o, kind, isSuccess, v) ==
  CASE kind = "nested" -> PResolveWith(promise, o, nestedOf[o])
    [] kind = "bare" -> PResolveWith(promise, o, bareOf[o])
    [] kind = "plain" -> PResolve(promise, o, v)
    [] kind = "throw" -> PReject(promise, o, Boom)

\* wrapChainCallback_(callback, value, newPromise): the promise state it sets
WrapPromise(o, kind, isSuccess, v) ==
  CASE kind = "nested" -> PResolveWith(promise, o, nestedOf[o])
    [] kind = "bare" -> PResolveWith(promise, o, bareOf[o])
    [] kind = "plain" -> PResolve(promise, o, PlainValue(isSuccess, v))
    [] kind = "throw" -> PReject(promise, o, Boom)

\* A mutant of WrapAbortFn: after a throw the chain goes on aborting "this".
WrapAbortFnThrowUpstream(kind) ==
  CASE kind = "nested" -> "nested"
    [] kind = "bare" -> "bare"
    [] kind = "plain" -> "bare"
    [] kind = "throw" -> "upstream"

\* wrapChainCallback_(callback, value, newPromise): the abort function it returns
WrapAbortFn(kind) ==
  CASE kind = "nested" -> "nested"
    [] kind = "bare" -> "bare"
    [] kind = "plain" -> "bare"
    [] kind = "throw" -> "noop"

\* A mutant of PassAlong: next() is called without the value.
PassAlongNoValue(o, isSuccess) ==
  IF isSuccess
    THEN PResolve(promise, o, 0)
    ELSE PReject(promise, o, "undefined")

\* A mutant of PassAlong: next is newPromise.resolve on both branches.
PassAlongResolves(o, isSuccess) ==
  IF isSuccess
    THEN PResolve(promise, o, promise[upstream[o]].val)
    ELSE PResolve(promise, o, 0)

\* const next = isSuccess ? newPromise.resolve : newPromise.reject; next(value);
PassAlong(o, isSuccess) ==
  IF isSuccess
    THEN PResolve(promise, o, promise[upstream[o]].val)
    ELSE PReject(promise, o, promise[upstream[o]].err)

\* cb, value: the callback that is called (onSuccess or onError) and the
\* value it is called with, the outcome of "this".
CallbackArg(o) ==
  [isSuccess |-> promise[upstream[o]].st = "fulfilled",
   val |-> promise[upstream[o]].val, err |-> promise[upstream[o]].err]

\* The callback makeCallback(isSuccess) returns, run by
\* this.promise.then(makeCallback(true), makeCallback(false)) once "this" has
\* settled.
RunCallback(o, kind) ==
  LET u == upstream[o]
      isSuccess == promise[u].st = "fulfilled"
  IN /\ cb[o] = "waiting"
     /\ Settled(promise[u])
     /\ IF StopsRightAway(o, isSuccess)
          THEN /\ kind = "absent"
               /\ promise' = PReject(promise, o, AbortError)
               /\ cb' = [cb EXCEPT ![o] = "stopped"]
               /\ UNCHANGED <<abortFn, exists, cbArgs>>
          ELSE IF kind = "absent"
            THEN /\ promise' = PassAlong(o, isSuccess)
                 /\ cb' = [cb EXCEPT ![o] = "absent"]
                 /\ UNCHANGED <<abortFn, exists, cbArgs>>
            ELSE /\ promise' = WrapPromise(o, kind, isSuccess, promise[u].val)
                 /\ cbArgs' = [cbArgs EXCEPT ![o] = Append(@, CallbackArg(o))]
                 /\ abortFn' = [abortFn EXCEPT ![o] = WrapAbortFn(kind)]
                 /\ cb' = [cb EXCEPT ![o] = kind]
                 /\ exists' = IF kind = "nested"
                                THEN [exists EXCEPT ![nestedOf[o]] = TRUE]
                                ELSE exists
     /\ UNCHANGED <<abortPromise_, cleanup, calls, nAbort, abortPhase, firstRet,
                    usedFn, lastAbort, final, aggVars,
                    gjcVars>>

\* newPromise.resolve(ret.promise) / newPromise.resolve(ret) with ret a
\* promise: newPromise takes the outcome of the promise it follows.
Follow(o) ==
  /\ o \in Chains
  /\ promise[o].st = "pending"
  /\ promise[o].to # ""
  /\ Settled(promise[promise[o].to])
  /\ promise' = [promise EXCEPT ![o] = promise[promise[o].to]]
  /\ UNCHANGED <<abortPromise_, abortFn, cb, exists, cleanup, calls, nAbort,
                 abortPhase, firstRet, usedFn, lastAbort, cbArgs, final,
                 aggVars,
                 gjcVars>>

----------------------------------------------------------------------------
\* The collaborators: the promises given to the constructor and returned by
\* callbacks settle, abort() is called, cleanups end.

\* What a leaf's promise may settle to: a value, an error, or, once its abort
\* was requested, the abort error.  The promise given to notAbortable() has
\* an error of its own and takes no notice of abort().
Outcomes(o) ==
  {Fulfilled(v) : v \in Values}
    \cup {Rejected(IF o \in NotAbortables THEN Err2 ELSE Err)}
    \cup (IF o \in Leaves /\ abortPromise_[o] # Null THEN {Rejected(AbortError)} ELSE {})

\* The promises collaborators settle: those given to the constructor or to
\* notAbortable(), and those callbacks returned.
Settlable == Leaves \cup NotAbortables \cup BarePromises

\* Whether id is one of the operations given to all().
IsMember(id) == \E i \in DOMAIN members : members[i] = id

\* Promise.all(operations.map((op) => op.promise)) has subscribed to the
\* promise of every member: when one settles, its reaction joins the queue.
Subscribed(q, id) ==
  IF IsMember(id)
    THEN Append(q, CHOOSE i \in DOMAIN members : members[i] = id)
    ELSE q

\* The promise a collaborator gave the constructor (a leaf), or that a
\* callback returned (a bare promise), settles.
Settle(id, outcome) ==
  /\ id \in Settlable
  /\ id \in Ops => exists[id]
  /\ id \in BarePromises => \E o \in Chains : bareOf[o] = id /\ cb[o] = "bare"
  /\ promise[id].st = "pending"
  /\ outcome \in Outcomes(id)
  /\ promise' = [promise EXCEPT ![id] = outcome]
  /\ reactions' = Subscribed(reactions, id)
  /\ UNCHANGED <<abortPromise_, abortFn, cb, exists, cleanup, calls, nAbort,
                 abortPhase, firstRet, usedFn, lastAbort, cbArgs, members,
                 allPromise, nReacted, final,
                 gjcVars>>

\* Somebody outside calls o.abort().
Abort(o) ==
  /\ exists[o]
  /\ nAbort < MaxAbortCalls
  /\ LET r == AbortCall(AbortState, o)
     IN /\ promise' = r.promise
        /\ abortPromise_' = r.abortPromise_
        /\ cleanup' = r.cleanup
        /\ calls' = r.calls
        /\ abortPhase' = r.abortPhase
        /\ firstRet' = r.firstRet
        /\ usedFn' = r.usedFn
        /\ lastAbort' = [op |-> o, ret |-> r.ret, phase |-> Phase(AbortState, o)]
  /\ nAbort' = nAbort + 1
  /\ UNCHANGED <<abortFn, cb, exists, cbArgs, final, aggVars,
                 gjcVars>>

\* The cleanup a leaf's onAbort started ends: its promise resolves.
CleanupDone(id) ==
  /\ id \in DOMAIN cleanup
  /\ id[1] = "cleanup"
  /\ cleanup[id] = "pending"
  /\ cleanup' = [cleanup EXCEPT ![id] = "resolved"]
  /\ UNCHANGED <<promise, abortPromise_, abortFn, cb, exists, calls, nAbort,
                 abortPhase, firstRet, usedFn, lastAbort, cbArgs, final,
                 aggVars,
                 gjcVars>>

\* A mutant of WaitOutcome: then(() => {}) without the second handler.
WaitOutcomeNoCatch(o) ==
  IF cb[o] = "bare" /\ promise[bareOf[o]].st = "rejected"
    THEN "rejected"
    ELSE "resolved"

\* Promise.resolve(ret).then(() => {}, () => {}): both handlers return
\* undefined, so the promise resolves however ret settled.
WaitOutcome(o) == "resolved"

\* Whether ret, the plain value or bare promise the callback of o returned,
\* has settled.
RetSettled(o) ==
  cb[o] = "plain" \/ (cb[o] = "bare" /\ Settled(promise[bareOf[o]]))

WaitSettles(id) ==
  /\ id \in DOMAIN cleanup
  /\ id[1] = "wait"
  /\ cleanup[id] = "pending"
  /\ RetSettled(id[2])
  /\ cleanup' = [cleanup EXCEPT ![id] = WaitOutcome(id[2])]
  /\ UNCHANGED <<promise, abortPromise_, abortFn, cb, exists, calls, nAbort,
                 abortPhase, firstRet, usedFn, lastAbort, cbArgs, final,
                 aggVars,
                 gjcVars>>

----------------------------------------------------------------------------
\* After  A = new AbortableOperation(promiseA, onAbortA),
\*        B = A.chain(...), D = B.chain(...).
Init ==
  /\ promise = [id \in PromiseIds |-> PendingPromise]
  /\ abortPromise_ = [o \in Ops |-> Null]
  /\ abortFn = [o \in Chains |-> "upstream"]
  /\ cb = [o \in Chains |-> "waiting"]
  /\ exists = [o \in Ops |-> o \in {"A", "B", "D"}]
  /\ cleanup = [id \in {} |-> ""]
  /\ calls = [o \in Ops |-> 0]
  /\ nAbort = 0
  /\ abortPhase = [o \in Ops |-> "never"]
  /\ firstRet = [o \in Ops |-> Null]
  /\ usedFn = [o \in Chains |-> <<>>]
  /\ lastAbort = [op |-> "", ret |-> Null, phase |-> "never"]
  /\ cbArgs = [o \in Chains |-> <<>>]
  /\ members = <<>>
  /\ allPromise = PendingAll
  /\ reactions = <<>>
  /\ nReacted = 0
  /\ final = [o \in Ops |-> NoFinally]
  /\ NoController

Next ==
  \/ \E o \in Chains, kind \in CbKinds : RunCallback(o, kind)
  \/ \E o \in Chains : Follow(o)
  \/ \E id \in Settlable :
       \E outcome \in Outcomes(id) : Settle(id, outcome)
  \/ \E o \in Ops : Abort(o)
  \/ \E id \in DOMAIN cleanup : CleanupDone(id)
  \/ \E id \in DOMAIN cleanup : WaitSettles(id)

Spec == Init /\ [][Next]_vars

\* After  A = new AbortableOperation(promiseA, onAbortA), B = A.chain(...):
\* the pipeline without its second stage.
InitChain ==
  /\ promise = [id \in PromiseIds |-> PendingPromise]
  /\ abortPromise_ = [o \in Ops |-> Null]
  /\ abortFn = [o \in Chains |-> "upstream"]
  /\ cb = [o \in Chains |-> "waiting"]
  /\ exists = [o \in Ops |-> o \in {"A", "B"}]
  /\ cleanup = [id \in {} |-> ""]
  /\ calls = [o \in Ops |-> 0]
  /\ nAbort = 0
  /\ abortPhase = [o \in Ops |-> "never"]
  /\ firstRet = [o \in Ops |-> Null]
  /\ usedFn = [o \in Chains |-> <<>>]
  /\ lastAbort = [op |-> "", ret |-> Null, phase |-> "never"]
  /\ cbArgs = [o \in Chains |-> <<>>]
  /\ members = <<>>
  /\ allPromise = PendingAll
  /\ reactions = <<>>
  /\ nReacted = 0
  /\ final = [o \in Ops |-> NoFinally]
  /\ NoController

NextChain ==
  \/ \E kind \in CbKinds : RunCallback("B", kind)
  \/ Follow("B")
  \/ \E id \in {"A", "C", "P"} :
       \E outcome \in Outcomes(id) : Settle(id, outcome)
  \/ \E o \in Ops : Abort(o)
  \/ \E id \in DOMAIN cleanup : CleanupDone(id)
  \/ \E id \in DOMAIN cleanup : WaitSettles(id)

\* The callback given to then() and the reaction of a promise resolved with
\* another are jobs the engine runs once they are due; when collaborators
\* settle their promises, call abort() or end a cleanup is up to them.
Fairness ==
  /\ WF_vars(\E kind \in CbKinds : RunCallback("B", kind))
  /\ WF_vars(Follow("B"))

SpecLive == InitChain /\ [][NextChain]_vars /\ Fairness

----------------------------------------------------------------------------
\* The factories and all().

\* completed(value): new AbortableOperation(Promise.resolve(value), ...)
completed(v) == Fulfilled(v)

\* failed(error): new AbortableOperation(Promise.reject(error), ...)
failed(e) == Rejected(e)

\* A mutant of CatchOutcome: promise.then(() => {}) in place of catch.
CatchOutcomeNoCatch(o) ==
  IF promise[o].st = "rejected" THEN "rejected" ELSE "resolved"

\* promise.catch(() => {}): resolved with the value of a fulfilled promise,
\* and with what the handler returns after a rejected one.
CatchOutcome(o) == "resolved"

\* The promise the abort function of notAbortable() returned settles, once
\* the promise given to notAbortable() has.
CatchSettles(id) ==
  /\ id \in DOMAIN cleanup
  /\ id[1] = "catch"
  /\ cleanup[id] = "pending"
  /\ Settled(promise[id[2]])
  /\ cleanup' = [cleanup EXCEPT ![id] = CatchOutcome(id[2])]
  /\ UNCHANGED <<promise, abortPromise_, abortFn, cb, exists, calls, nAbort,
                 abortPhase, firstRet, usedFn, lastAbort, cbArgs, final,
                 aggVars,
                 gjcVars>>

\* A mutant of AllAfter: once abort() was called on all(), its promise is
\* rejected with the abort error at the next reaction.
AllAfterAbortAware(i) ==
  LET p == promise[members[i]]
  IN IF allPromise.st # "pending" THEN allPromise
     ELSE IF abortPromise_["G"] # Null
       THEN [st |-> "rejected", vals |-> <<>>, err |-> AbortError]
     ELSE IF p.st = "rejected"
       THEN [st |-> "rejected", vals |-> <<>>, err |-> p.err]
     ELSE IF nReacted + 1 = Len(members)
       THEN [st |-> "fulfilled",
             vals |-> [j \in 1 .. Len(members) |-> promise[members[j]].val],
             err |-> ""]
     ELSE allPromise

\* A mutant of AllAfter: the values are kept in the order they arrived in.
AllAfterArrivalOrder(i) ==
  LET p == promise[members[i]]
  IN IF allPromise.st # "pending" THEN allPromise
     ELSE IF p.st = "rejected"
       THEN [st |-> "rejected", vals |-> <<>>, err |-> p.err]
     ELSE IF nReacted + 1 = Len(members)
       THEN [st |-> "fulfilled",
             vals |-> [j \in 1 .. Len(members) |->
                         promise[members[reactions[j]]].val],
             err |-> ""]
     ELSE allPromise

\* A mutant of AllAfter: a rejection is reported when every member has
\* settled (Promise.allSettled in place of Promise.all).
AllAfterWaitsForAll(i) ==
  LET p == promise[members[i]]
      rejected == {j \in 1 .. Len(members) : promise[members[j]].st = "rejected"}
  IN IF allPromise.st # "pending" THEN allPromise
     ELSE IF nReacted + 1 = Len(members) /\ rejected # {}
       THEN [st |-> "rejected", vals |-> <<>>,
             err |-> promise[members[CHOOSE j \in rejected : TRUE]].err]
     ELSE IF nReacted + 1 = Len(members)
       THEN [st |-> "fulfilled",
             vals |-> [j \in 1 .. Len(members) |-> promise[members[j]].val],
             err |-> ""]
     ELSE allPromise

\* Promise.all(operations.map((op) => op.promise)) after its reaction to the
\* i-th member's promise: rejected with the member's error, fulfilled with
\* the members' values by index once it has reacted to all, or as before.
AllAfter(i) ==
  LET p == promise[members[i]]
  IN IF allPromise.st # "pending" THEN allPromise
     ELSE IF p.st = "rejected"
       THEN [st |-> "rejected", vals |-> <<>>, err |-> p.err]
     ELSE IF nReacted + 1 = Len(members)
       THEN [st |-> "fulfilled",
             vals |-> [j \in 1 .. Len(members) |-> promise[members[j]].val],
             err |-> ""]
     ELSE allPromise

\* Promise.all reacts to the next member promise that settled.
AllReact ==
  /\ nReacted < Len(reactions)
  /\ allPromise' = AllAfter(reactions[nReacted + 1])
  /\ nReacted' = nReacted + 1
  /\ UNCHANGED <<promise, abortPromise_, abortFn, cb, exists, cleanup, calls,
                 nAbort, abortPhase, firstRet, usedFn, lastAbort, cbArgs,
                 members, reactions, final,
                 gjcVars>>

\* A mutant of AllCleanupOutcome: Promise.race in place of Promise.all.
AllCleanupAny(o) ==
  IF \E i \in DOMAIN members : cleanup[abortPromise_[members[i]]] = "resolved"
    THEN "resolved"
    ELSE "pending"

\* Promise.all(operations.map((op) => op.abort())): resolved when the promise
\* of every member's abort() has resolved, rejected when one was rejected.
AllCleanupOutcome(o) ==
  IF \E i \in DOMAIN members : cleanup[abortPromise_[members[i]]] = "rejected"
    THEN "rejected"
  ELSE IF \A i \in DOMAIN members : cleanup[abortPromise_[members[i]]] = "resolved"
    THEN "resolved"
    ELSE "pending"

\* The promise the abort function of all() returned settles.
AllCleanupDone(id) ==
  /\ id \in DOMAIN cleanup
  /\ id[1] = "all"
  /\ cleanup[id] = "pending"
  /\ AllCleanupOutcome(id[2]) # "pending"
  /\ cleanup' = [cleanup EXCEPT ![id] = AllCleanupOutcome(id[2])]
  /\ UNCHANGED <<promise, abortPromise_, abortFn, cb, exists, calls, nAbort,
                 abortPhase, firstRet, usedFn, lastAbort, cbArgs, final,
                 aggVars,
                 gjcVars>>

\* After  G = all(members), the members being made, each if it is in the list,
\* by  M = new AbortableOperation(promiseM, onAbortM),
\*     N = notAbortable(promiseN), K = completed(v), F = failed(Err).
\* Promise.all finds the promises of K and F settled and reacts to them
\* first, in the order of the list.
InitAll ==
  /\ members \in MemberLists
  /\ \E v \in Values :
       promise = [id \in PromiseIds |->
                    IF id \in Completed /\ IsMember(id) THEN completed(v)
                    ELSE IF id \in Failed /\ IsMember(id) THEN failed(Err)
                    ELSE PendingPromise]
  /\ reactions = SelectSeq([i \in 1 .. NumMembers |-> i],
                           LAMBDA i : members[i] \in Completed \cup Failed)
  /\ allPromise = PendingAll
  /\ nReacted = 0
  /\ final = [o \in Ops |-> NoFinally]
  /\ NoController
  /\ abortPromise_ = [o \in Ops |-> Null]
  /\ abortFn = [o \in Chains |-> "upstream"]
  /\ cb = [o \in Chains |-> "waiting"]
  /\ exists = [o \in Ops |-> IsMember(o) \/ o \in Aggregates]
  /\ cleanup = [id \in {} |-> ""]
  /\ calls = [o \in Ops |-> 0]
  /\ nAbort = 0
  /\ abortPhase = [o \in Ops |-> "never"]
  /\ firstRet = [o \in Ops |-> Null]
  /\ usedFn = [o \in Chains |-> <<>>]
  /\ lastAbort = [op |-> "", ret |-> Null, phase |-> "never"]
  /\ cbArgs = [o \in Chains |-> <<>>]

NextAll ==
  \/ \E id \in Leaves \cup NotAbortables :
       \E outcome \in Outcomes(id) : Settle(id, outcome)
  \/ \E o \in Ops : Abort(o)
  \/ \E id \in DOMAIN cleanup : CleanupDone(id)
  \/ \E id \in DOMAIN cleanup : CatchSettles(id)
  \/ AllReact
  \/ \E id \in DOMAIN cleanup : AllCleanupDone(id)

SpecAll == InitAll /\ [][NextAll]_vars

\* A mutant of FinalFlag: onFinal(true) on both branches.
FinalFlagTrue(p) == TRUE

\* (value) => onFinal(true), (e) => onFinal(false)
FinalFlag(p) == p.st = "fulfilled"

\* A mutant of finally: the handlers are registered and a new operation is
\* returned.
finallyNewOperation(f, o) ==
  [f EXCEPT ![o].n = @ + 1, ![o].ret = "new"]

\* finally(onFinal) { this.promise.then(...); return this; }
finally(f, o) ==
  [f EXCEPT ![o].n = @ + 1, ![o].ret = o]

\* Somebody calls o.finally(onFinal).
Finally(o) ==
  /\ exists[o]
  /\ final[o].n < MaxFinally
  /\ final' = finally(final, o)
  /\ UNCHANGED <<promise, abortPromise_, abortFn, cb, exists, cleanup, calls,
                 nAbort, abortPhase, firstRet, usedFn, lastAbort, cbArgs,
                 aggVars,
                 gjcVars>>

\* The promise of o has settled: a handler finally() gave to then() runs and
\* calls onFinal.
FinalRuns(o) ==
  /\ Len(final[o].args) < final[o].n
  /\ Settled(promise[o])
  /\ final' = [final EXCEPT ![o].args = Append(@, FinalFlag(promise[o]))]
  /\ UNCHANGED <<promise, abortPromise_, abortFn, cb, exists, cleanup, calls,
                 nAbort, abortPhase, firstRet, usedFn, lastAbort, cbArgs,
                 aggVars,
                 gjcVars>>

\* After  N = notAbortable(promiseN), K = completed(v), F = failed(Err),
\* each on its own.
InitFactories ==
  /\ \E v \in Values :
       promise = [id \in PromiseIds |->
                    IF id \in Completed THEN completed(v)
                    ELSE IF id \in Failed THEN failed(Err)
                    ELSE PendingPromise]
  /\ members = <<>>
  /\ reactions = <<>>
  /\ allPromise = PendingAll
  /\ nReacted = 0
  /\ final = [o \in Ops |-> NoFinally]
  /\ NoController
  /\ abortPromise_ = [o \in Ops |-> Null]
  /\ abortFn = [o \in Chains |-> "upstream"]
  /\ cb = [o \in Chains |-> "waiting"]
  /\ exists = [o \in Ops |-> o \in NotAbortables \cup Completed \cup Failed]
  /\ cleanup = [id \in {} |-> ""]
  /\ calls = [o \in Ops |-> 0]
  /\ nAbort = 0
  /\ abortPhase = [o \in Ops |-> "never"]
  /\ firstRet = [o \in Ops |-> Null]
  /\ usedFn = [o \in Chains |-> <<>>]
  /\ lastAbort = [op |-> "", ret |-> Null, phase |-> "never"]
  /\ cbArgs = [o \in Chains |-> <<>>]

NextFactories ==
  \/ \E id \in NotAbortables :
       \E outcome \in Outcomes(id) : Settle(id, outcome)
  \/ \E o \in Ops : Abort(o)
  \/ \E id \in DOMAIN cleanup : CatchSettles(id)
  \/ \E o \in Ops : Finally(o)
  \/ \E o \in Ops : FinalRuns(o)

SpecFactories == InitFactories /\ [][NextFactories]_vars

----------------------------------------------------------------------------
\* aborted(), and a chain on it.

\* abortError(): new shaka.util.Error(Severity.CRITICAL, Category.PLAYER,
\* Code.OPERATION_ABORTED).  A promise's err is the code of its error.
abortError ==
  [severity |-> "CRITICAL", category |-> "PLAYER", code |-> AbortError]

\* A mutant of abortedOperation: the operation is given the promise
\* p.catch(() => {}) returns, which is fulfilled with undefined.
abortedOperationCaught == Fulfilled(0)

\* aborted(): const p = Promise.reject(abortError()); p.catch(() => {});
\* new AbortableOperation(p, ...).  The catch makes another promise and
\* leaves p rejected.
abortedOperation == Rejected(abortError.code)

\* After  X = aborted(), Y = X.chain(onSuccess, onError).
InitAborted ==
  /\ promise = [id \in PromiseIds |->
                  IF id \in Aborted THEN abortedOperation ELSE PendingPromise]
  /\ abortPromise_ = [o \in Ops |-> Null]
  /\ abortFn = [o \in Chains |-> "upstream"]
  /\ cb = [o \in Chains |-> "waiting"]
  /\ exists = [o \in Ops |-> o \in {"X", "Y"}]
  /\ cleanup = [id \in {} |-> ""]
  /\ calls = [o \in Ops |-> 0]
  /\ nAbort = 0
  /\ abortPhase = [o \in Ops |-> "never"]
  /\ firstRet = [o \in Ops |-> Null]
  /\ usedFn = [o \in Chains |-> <<>>]
  /\ lastAbort = [op |-> "", ret |-> Null, phase |-> "never"]
  /\ cbArgs = [o \in Chains |-> <<>>]
  /\ members = <<>>
  /\ allPromise = PendingAll
  /\ reactions = <<>>
  /\ nReacted = 0
  /\ final = [o \in Ops |-> NoFinally]
  /\ NoController

NextAborted ==
  \/ \E kind \in CbKinds : RunCallback("Y", kind)
  \/ Follow("Y")
  \/ \E id \in {"Z", "R"} :
       \E outcome \in Outcomes(id) : Settle(id, outcome)
  \/ \E o \in Ops : Abort(o)
  \/ \E id \in DOMAIN cleanup : CleanupDone(id)
  \/ \E id \in DOMAIN cleanup : WaitSettles(id)

SpecAborted == InitAborted /\ [][NextAborted]_vars

----------------------------------------------------------------------------
\* shaka.media.GapJumpingController (lines 27-288).
\*
\* Times are whole numbers of ticks of 5 ms, 0 .. MaxTime: a centisecond is
\* two ticks and BROWSER_GAP_TOLERANCE a fifth of one.  The controller jumps
\* at most MaxJumps times; config_.gapPadding is 0 .. MaxPadding ticks;
\* getGapIndex returns an index below MaxRanges.
MaxTime == 3
MaxJumps == 2
MaxPadding == 1
MaxRanges == 2

\* shaka.media.GapJumpingController.BROWSER_GAP_TOLERANCE = 0.001, in ms
BROWSER_GAP_TOLERANCE == 1

Times == 0 .. MaxTime
\* HTMLMediaElement.readyState: HAVE_NOTHING and, of the others, which the
\* controller does not tell apart, HAVE_ENOUGH_DATA
ReadyStates == {0, 4}

\* The variables of the operations, which the controller does not touch.
opVars == <<promise, abortPromise_, abortFn, cb, exists, cleanup, calls,
            nAbort, abortPhase, firstRet, usedFn, lastAbort, cbArgs, final,
            aggVars>>

\* The step just taken made no jump.
NoJump == [jumped |-> FALSE]

\* What one call of onPollGapJump_ reads from its collaborators, none of
\* which is the controller's: whether stallDetector_.poll() acted (false
\* with no stall detector); what TimeRangesUtils.getGapIndex made of
\* video_.buffered, <<>> for null or <<[index, start]>> with the index, from
\* 0, of a range and the start of that range, which is not before time
\* index since the ranges before it are not empty; and
\* timeline_.getSeekRangeEnd().  What a poll does not get to read is left
\* out of its input.
Gaps ==
  {<<>>} \cup {<<[index |-> i, start |-> t]>> :
                 i \in 0 .. MaxRanges - 1, t \in Times}

PollInputs ==
  {in \in [stalled : BOOLEAN, gap : Gaps, seekEnd : Times] :
     /\ in.gap # <<>> => in.gap[1].start >= in.gap[1].index
     /\ in.stalled => in.gap = <<>>
     /\ in.gap = <<>> => in.seekEnd = 0}

\* The part of the state a handler of the controller reads and writes.
GapState ==
  [video |-> video, controller |-> controller, sent |-> sent,
   announced |-> announced, lastJump |-> lastJump]

\* if (this.video_.readyState == 0) { return; }
NotReady(s) == s.video.readyState = 0

\* A mutant of NotStarted: the poll goes on before onStarted().
NotStartedNever(s) == FALSE

\* if (!this.started_) { return; }
NotStarted(s) == ~s.controller.started_

\* if (this.video_.seeking) { if (!this.seekingEventReceived_) { return; } }
SeekUnannounced(s) ==
  s.video.seeking /\ ~s.controller.seekingEventReceived_

\* else { this.seekingEventReceived_ = false; }
AfterSeekCheck(s) ==
  IF s.video.seeking THEN s
  ELSE [s EXCEPT !.controller.seekingEventReceived_ = FALSE]

\* A mutant of PausedAway: autoplay is not asked for.
PausedAwayAnyAutoplay(s) ==
  s.video.paused /\ s.video.currentTime # s.controller.startTime_

\* if (this.video_.paused && (this.video_.currentTime != this.startTime_ ||
\*   (!this.video_.autoplay && this.video_.currentTime == this.startTime_)))
\*   { return; }
PausedAway(s) ==
  s.video.paused
    /\ (s.video.currentTime # s.controller.startTime_
          \/ (~s.video.autoplay
                /\ s.video.currentTime = s.controller.startTime_))

\* if (this.video_.readyState != this.prevReadyState_)
\*   { this.prevReadyState_ = this.video_.readyState; }
AfterReadyStateCheck(s) ==
  IF s.video.readyState # s.controller.prevReadyState_
    THEN [s EXCEPT !.controller.prevReadyState_ = s.video.readyState]
    ELSE s

\* A mutant of WaitsForAppend: the flag is not read.
WaitsForAppendNever(s, gapIndex) == FALSE

\* if (gapIndex == 0 && !this.hadSegmentAppended_) { return; }
WaitsForAppend(s, gapIndex) ==
  gapIndex = 0 /\ ~s.controller.hadSegmentAppended_

\* Math.ceil(x * 100) / 100: x rounded up to a whole centisecond.
CeilCentis(x) == 2 * ((x + 1) \div 2)

\* let jumpTo = buffered.start(gapIndex);  (in.gap[1].start)
\* if (isLegacyEdge() || isXboxOne() || isTizen())
\*   { jumpTo = Math.ceil((jumpTo + gapPadding) * 100) / 100; }
JumpTarget(in) ==
  LET start == in.gap[1].start
  IN IF config.pads THEN CeilCentis(start + config.gapPadding) ELSE start

\* if (jumpTo >= seekEnd) { return; }
PastSeekEnd(jumpTo, seekEnd) == jumpTo >= seekEnd

\* if (jumpSize < BROWSER_GAP_TOLERANCE) { return; }
\* jumpSize is in ticks of 5 ms, the tolerance in ms.
TooSmall(jumpSize) == jumpSize * 5 < BROWSER_GAP_TOLERANCE

\* A mutant of Jump: the event is sent without the counter being moved.
JumpUncounted(s, in, jumpTo) ==
  [s EXCEPT
     !.video.currentTime = jumpTo,
     !.video.seeking = TRUE,
     !.announced = FALSE,
     !.controller.startTime_ =
        IF s.video.currentTime = s.controller.startTime_ THEN jumpTo ELSE @,
     !.sent = Append(@, "GapJumped"),
     !.lastJump =
        [jumped |-> TRUE, gapIndex |-> in.gap[1].index,
         from |-> s.video.currentTime, to |-> jumpTo, seekEnd |-> in.seekEnd,
         startTime |-> s.controller.startTime_,
         readyState |-> s.video.readyState, paused |-> s.video.paused,
         autoplay |-> s.video.autoplay, seeking |-> s.video.seeking,
         announced |-> s.announced,
         appended |-> s.controller.hadSegmentAppended_]]

\* this.video_.currentTime = jumpTo;
\* if (currentTime == this.startTime_) { this.startTime_ = jumpTo; }
\* this.gapsJumped_++;
\* this.onEvent_(new FakeEvent(FakeEvent.EventName.GapJumped));
\* The element, whose readyState is not 0, begins a seek when its currentTime
\* is set: seeking is true from then on and a seeking event will follow.
\* lastJump keeps what the poll read, until the next step.
Jump(s, in, jumpTo) ==
  [s EXCEPT
     !.video.currentTime = jumpTo,
     !.video.seeking = TRUE,
     !.announced = FALSE,
     !.controller.startTime_ =
        IF s.video.currentTime = s.controller.startTime_ THEN jumpTo ELSE @,
     !.controller.gapsJumped_ = @ + 1,
     !.sent = Append(@, "GapJumped"),
     !.lastJump =
        [jumped |-> TRUE, gapIndex |-> in.gap[1].index,
         from |-> s.video.currentTime, to |-> jumpTo, seekEnd |-> in.seekEnd,
         startTime |-> s.controller.startTime_,
         readyState |-> s.video.readyState, paused |-> s.video.paused,
         autoplay |-> s.video.autoplay, seeking |-> s.video.seeking,
         announced |-> s.announced,
         appended |-> s.controller.hadSegmentAppended_]]

\* onPollGapJump_(), from line 208 on: after the stall detector, the gap.
JumpOrNot(s, in) ==
  IF in.stalled \/ in.gap = <<>> THEN s
  ELSE IF WaitsForAppend(s, in.gap[1].index) THEN s
  ELSE IF PastSeekEnd(JumpTarget(in), in.seekEnd) THEN s
  ELSE IF TooSmall(JumpTarget(in) - s.video.currentTime) THEN s
  ELSE Jump(s, in, JumpTarget(in))

\* onPollGapJump_().  After release() video_ is null and the first line
\* throws.
onPollGapJump_(s, in) ==
  IF s.controller.released THEN s
  ELSE IF NotReady(s) \/ NotStarted(s) \/ SeekUnannounced(s) THEN s
  ELSE IF PausedAway(AfterSeekCheck(s)) THEN AfterSeekCheck(s)
  ELSE JumpOrNot(AfterReadyStateCheck(AfterSeekCheck(s)), in)

\* What a handler starts from: the state, with no jump made yet.
HandlerState == [GapState EXCEPT !.lastJump = NoJump]

\* The inputs of a poll made in state s: one that returns before line 208
\* reads none.
NoInput == [stalled |-> FALSE, gap |-> <<>>, seekEnd |-> 0]

Reads(s) ==
  IF s.controller.released \/ NotReady(s) \/ NotStarted(s)
       \/ SeekUnannounced(s) \/ PausedAway(AfterSeekCheck(s))
    THEN {NoInput}
    ELSE PollInputs

\* A handler ends in state s.
Becomes(s) ==
  /\ video' = s.video
  /\ controller' = s.controller
  /\ sent' = s.sent
  /\ announced' = s.announced
  /\ lastJump' = s.lastJump

\* The handlers poll while the controller has jumped less than MaxJumps times.
MayPoll == controller.gapsJumped_ < MaxJumps

\* The timer onStarted() set ticking fires: () => { this.onPollGapJump_(); }
TimerTick ==
  /\ MayPoll
  /\ controller.ticking
  /\ \E in \in Reads(HandlerState) :
       Becomes(onPollGapJump_(HandlerState, in))
  /\ UNCHANGED <<config, lastCall, opVars>>

\* The element fires 'waiting': () => this.onPollGapJump_(), listened to
\* from the constructor until release().
Waiting ==
  /\ MayPoll
  /\ ~controller.released
  /\ \E in \in Reads(HandlerState) :
       Becomes(onPollGapJump_(HandlerState, in))
  /\ UNCHANGED <<config, lastCall, opVars>>

\* this.hadSegmentAppended_ = true;
BeforeAppendedPoll(s) == [s EXCEPT !.controller.hadSegmentAppended_ = TRUE]

\* onSegmentAppended()
onSegmentAppended(s, in) == onPollGapJump_(BeforeAppendedPoll(s), in)

OnSegmentAppended ==
  /\ MayPoll
  /\ \E in \in Reads(BeforeAppendedPoll(HandlerState)) :
       Becomes(onSegmentAppended(HandlerState, in))
  /\ lastCall' = "onSegmentAppended"
  /\ UNCHANGED <<config, opVars>>

\* onStarted(startTime).  After release() video_ is null and the second
\* line throws.
\* this.started_ = true;
\* if (this.video_.seeking && !this.seekingEventReceived_)
\*   { this.seekingEventReceived_ = true; this.startTime_ = startTime; }
\* if (this.gapJumpTimer_) { this.gapJumpTimer_.tickEvery(...); }
\* With the flag set the controller counts as told of the seek.
BeforeStartedPoll(s, startTime) ==
  LET s1 == [s EXCEPT !.controller.started_ = TRUE]
      s2 == IF s1.video.seeking /\ ~s1.controller.seekingEventReceived_
              THEN [s1 EXCEPT !.controller.seekingEventReceived_ = TRUE,
                              !.controller.startTime_ = startTime,
                              !.announced = TRUE]
              ELSE s1
  IN IF s.controller.released THEN s1
     ELSE [s2 EXCEPT !.controller.ticking = TRUE]

onStarted(s, startTime, in) ==
  onPollGapJump_(BeforeStartedPoll(s, startTime), in)

\* The playhead calls onStarted(startTime) once, when playback has started.
OnStarted(startTime) ==
  /\ MayPoll
  /\ ~controller.started_
  /\ \E in \in Reads(BeforeStartedPoll(HandlerState, startTime)) :
       Becomes(onStarted(HandlerState, startTime, in))
  /\ UNCHANGED <<config, lastCall, opVars>>

\* this.seekingEventReceived_ = true; this.hadSegmentAppended_ = false;
\* The controller has now been told of the seek the element is in, if it
\* is in one.
BeforeSeekingPoll(s) ==
  [s EXCEPT !.controller.seekingEventReceived_ = TRUE,
            !.controller.hadSegmentAppended_ = FALSE,
            !.announced = s.video.seeking]

\* onSeeking()
onSeeking(s, in) == onPollGapJump_(BeforeSeekingPoll(s), in)

OnSeeking ==
  /\ MayPoll
  /\ \E in \in Reads(BeforeSeekingPoll(HandlerState)) :
       Becomes(onSeeking(HandlerState, in))
  /\ lastCall' = "onSeeking"
  /\ UNCHANGED <<config, opVars>>

\* release(): the listener is removed, the timer stopped, video_ is null.
Release ==
  /\ ~controller.released
  /\ controller' = [controller EXCEPT !.released = TRUE, !.ticking = FALSE]
  /\ lastJump' = NoJump
  /\ UNCHANGED <<video, config, sent, announced, lastCall, opVars>>

\* The element the controller holds, on its own or at the application's
\* hand.

ReadyStateChanges(r) ==
  /\ ~controller.released
  /\ r # video.readyState
  /\ video' = [video EXCEPT !.readyState = r]
  /\ lastJump' = NoJump
  /\ UNCHANGED <<controller, config, sent, announced, lastCall, opVars>>

\* A seek to t begins, whether or not another was under way: its seeking
\* event has not been fired yet.
SeekBegins(t) ==
  /\ ~controller.released
  /\ video.readyState # 0
  /\ video' = [video EXCEPT !.seeking = TRUE, !.currentTime = t]
  /\ announced' = FALSE
  /\ lastJump' = NoJump
  /\ UNCHANGED <<controller, config, sent, lastCall, opVars>>

SeekEnds ==
  /\ ~controller.released
  /\ video.seeking
  /\ video' = [video EXCEPT !.seeking = FALSE]
  /\ announced' = FALSE
  /\ lastJump' = NoJump
  /\ UNCHANGED <<controller, config, sent, lastCall, opVars>>

PlayOrPause ==
  /\ ~controller.released
  /\ video' = [video EXCEPT !.paused = ~@]
  /\ lastJump' = NoJump
  /\ UNCHANGED <<controller, config, sent, announced, lastCall, opVars>>

\* Playback moves the playhead.
TimeAdvances ==
  /\ ~controller.released
  /\ ~video.paused
  /\ ~video.seeking
  /\ video.readyState # 0
  /\ video.currentTime < MaxTime
  /\ video' = [video EXCEPT !.currentTime = @ + 1]
  /\ lastJump' = NoJump
  /\ UNCHANGED <<controller, config, sent, announced, lastCall, opVars>>

\* After  new GapJumpingController(video, timeline, config, stallDetector,
\* onEvent), on an element at time 0 that is in no seek.
InitGap ==
  /\ video \in [readyState : ReadyStates, seeking : {FALSE},
                paused : BOOLEAN, autoplay : BOOLEAN, currentTime : {0}]
  /\ controller = [started_ |-> FALSE, seekingEventReceived_ |-> FALSE,
                   prevReadyState_ |-> video.readyState, startTime_ |-> 0,
                   gapsJumped_ |-> 0, hadSegmentAppended_ |-> FALSE,
                   ticking |-> FALSE, released |-> FALSE]
  /\ config \in {c \in [pads : BOOLEAN, gapPadding : 0 .. MaxPadding] :
                   ~c.pads => c.gapPadding = 0}
  /\ sent = <<>>
  /\ announced = FALSE
  /\ lastCall = ""
  /\ lastJump = NoJump
  /\ promise = [id \in PromiseIds |-> PendingPromise]
  /\ abortPromise_ = [o \in Ops |-> Null]
  /\ abortFn = [o \in Chains |-> "upstream"]
  /\ cb = [o \in Chains |-> "waiting"]
  /\ exists = [o \in Ops |-> FALSE]
  /\ cleanup = [id \in {} |-> ""]
  /\ calls = [o \in Ops |-> 0]
  /\ nAbort = 0
  /\ abortPhase = [o \in Ops |-> "never"]
  /\ firstRet = [o \in Ops |-> Null]
  /\ usedFn = [o \in Chains |-> <<>>]
  /\ lastAbort = [op |-> "", ret |-> Null, phase |-> "never"]
  /\ cbArgs = [o \in Chains |-> <<>>]
  /\ members = <<>>
  /\ allPromise = PendingAll
  /\ reactions = <<>>
  /\ nReacted = 0
  /\ final = [o \in Ops |-> NoFinally]

NextGap ==
  \/ TimerTick
  \/ Waiting
  \/ OnSegmentAppended
  \/ \E startTime \in Times : OnStarted(startTime)
  \/ OnSeeking
  \/ Release
  \/ \E r \in ReadyStates : ReadyStateChanges(r)
  \/ \E t \in Times : SeekBegins(t)
  \/ SeekEnds
  \/ PlayOrPause
  \/ TimeAdvances

SpecGap == InitGap /\ [][NextGap]_vars

----------------------------------------------------------------------------
\* The claims.

InvokedCallback(o) == cb[o] \in {"plain", "bare", "nested", "throw"}

\* C1: a chain whose abort() was first called while its upstream had not
\* settled is rejected with the abort error, at once and whatever the upstream
\* and the callbacks do afterwards.
C1_AbortBeforeSettleRejects ==
  \A o \in Chains :
    abortPhase[o] = "pending" => promise[o] = Rejected(AbortError)

\* A callback of B ran after B was aborted with A pending.
C1_Witness ==
  /\ abortPhase["B"] = "pending"
  /\ promise["A"].st = "rejected"
  /\ cb["B"] = "plain"

\* C2: onAbort_ of an operation was invoked once if abort() was ever called on
\* it and never otherwise, and every abort() call returned the promise the
\* first call returned.
C2_AbortCallbackOnce ==
  /\ \A o \in Ops :
       /\ calls[o] = (IF abortPhase[o] = "never" THEN 0 ELSE 1)
       /\ abortPromise_[o] = firstRet[o]
       /\ (abortPhase[o] = "never") = (abortPromise_[o] = Null)
  /\ lastAbort.op # "" => lastAbort.ret = firstRet[lastAbort.op]

\* abort() was called on A twice, before and after A settled.
C2_Witness ==
  /\ lastAbort.op = "A"
  /\ lastAbort.phase = "leafSettled"
  /\ abortPhase["A"] = "leafPending"
  /\ calls["A"] = 1
  /\ \A o \in Chains : abortPhase[o] = "never"

\* C3: a chain aborted after its upstream was fulfilled and before its
\* then-callback ran is rejected with the abort error, and onSuccess is never
\* called.
C3_AbortWinsBeforeCallback ==
  \A o \in Chains :
    (abortPhase[o] = "settled" /\ promise[upstream[o]].st = "fulfilled")
      => /\ promise[o] = Rejected(AbortError)
         /\ ~InvokedCallback(o)
         /\ cb[o] \in {"waiting", "stopped"}

\* The then-callback of B ran after such an abort, and stopped right away.
C3_Witness ==
  /\ abortPhase["B"] = "settled"
  /\ promise["A"].st = "fulfilled"
  /\ cb["B"] = "stopped"

\* An abort() call from outside on o happens in this step.
AbortStep(o) == nAbort' = nAbort + 1 /\ lastAbort'.op = o

\* The first abort() call on o, from outside or from an abort function,
\* happens in this step.
FirstAbortStep(o) == abortPhase[o] = "never" /\ abortPhase'[o] # "never"

\* No onError callback has been called in the pipeline: all a pipeline of
\* chain(onSuccess) calls can show.
NoErrorCallback ==
  \A o \in Chains : InvokedCallback(o) => promise[upstream[o]].st = "fulfilled"

\* After an abort() call on the pipeline's last operation: the leaf's abort
\* callback has been invoked once, and every chain is rejected with the abort
\* error.
PipelineAborted ==
  /\ calls'["A"] = 1
  /\ \A o \in Chains : exists[o] => promise'[o] = Rejected(AbortError)

\* C4: in the pipeline D = A.chain(f).chain(g), whose stages have no onError
\* to call, an abort() call on D while the leaf A is pending invokes A's abort
\* callback exactly once and rejects B and D with the abort error.
C4_PipelineAbort ==
  [][(AbortStep("D") /\ promise["A"].st = "pending" /\ NoErrorCallback)
       => PipelineAborted]_vars

\* abort() was called on D, and on nothing else, with the leaf A pending.
C4_Witness ==
  /\ lastAbort.op = "D"
  /\ nAbort = 1
  /\ promise["A"].st = "pending"
  /\ calls["A"] = 1
  /\ promise["B"] = Rejected(AbortError)
  /\ promise["D"] = Rejected(AbortError)

\* What the promise of chain o shows of the promise p it was resolved with:
\* p's outcome once it has taken it, and nothing before p has settled.
SettlesAs(o, p) ==
  IF Settled(promise[o])
    THEN promise[o] = promise[p]
    ELSE promise[o].to = p

\* abort() was not called on o before its callback ran.
NotAbortedBeforeCallback(o) == abortPhase[o] \notin {"pending", "settled"}

\* C5: when the callback of a chain that was not aborted before returned a
\* nested operation, the chain's promise settles as the nested operation's
\* does; the first abort() on the chain afterwards calls the nested
\* operation's abort(), returns what that returns, and leaves the upstream
\* alone.
C5_NestedSettles ==
  \A o \in Chains :
    (cb[o] = "nested" /\ NotAbortedBeforeCallback(o))
      => /\ SettlesAs(o, nestedOf[o])
         /\ abortPhase[o] # "never"
              => /\ abortPromise_[nestedOf[o]] # Null
                 /\ abortPromise_[o] = abortPromise_[nestedOf[o]]
                 /\ calls[nestedOf[o]] = 1

\* The step of the first abort() on a chain whose callback returned a nested
\* operation aborts that operation and not the upstream.
C5_NestedAbortStep ==
  \A o \in Chains :
    (FirstAbortStep(o) /\ cb[o] = "nested")
      => /\ abortPromise_'[nestedOf[o]] # Null
         /\ calls'[upstream[o]] = calls[upstream[o]]
         /\ abortPromise_'[upstream[o]] = abortPromise_[upstream[o]]

\* C5: both of the above: the chain settles as the nested operation C, and
\* its abort() is C.abort().
C5_NestedOperation ==
  [](C5_NestedSettles) /\ [][C5_NestedAbortStep]_vars

\* B was aborted after its callback returned C: C's abort callback was
\* invoked, A's was not, and B has settled as C did.
C5_Witness ==
  /\ cb["B"] = "nested"
  /\ abortPhase["B"] = "ranPending"
  /\ calls["C"] = 1
  /\ calls["A"] = 0
  /\ promise["C"] = Rejected(AbortError)
  /\ promise["B"] = Rejected(AbortError)

\* C6: the promise of a chain, once settled, never changes.
C6_SettlesOnce ==
  [][\A o \in Chains : Settled(promise[o]) => promise'[o] = promise[o]]_vars

\* The callback of B threw after abort() had rejected B's promise: the second
\* reject had no effect.
C6_Witness ==
  /\ abortPhase["B"] = "pending"
  /\ cb["B"] = "throw"
  /\ promise["B"] = Rejected(AbortError)

\* C7, as claimed, for the chains whose callback returned no operation: a
\* chain aborted before its promise, and any promise that one follows, had
\* settled ends rejected with the abort error.
C7_Original ==
  \A o \in Chains :
    (/\ abortPhase[o] \in {"pending", "settled", "ranPending"}
     /\ cb[o] # "nested"
     /\ Settled(promise[o]))
      => promise[o] = Rejected(AbortError)

\* C7, amended: a chain aborted before its callback ran is rejected with the
\* abort error; a chain aborted after its callback returned a promise or a
\* nested operation settles as that does.
C7_AbortOutcome ==
  \A o \in Chains :
    /\ abortPhase[o] \in {"pending", "settled"}
         => promise[o] = Rejected(AbortError)
    /\ (abortPhase[o] \in {"ranPending", "ranFollowing"} /\ cb[o] = "bare")
         => SettlesAs(o, bareOf[o])
    /\ (abortPhase[o] \in {"ranPending", "ranFollowing"} /\ cb[o] = "nested")
         => SettlesAs(o, nestedOf[o])

\* B was aborted while the promise its callback returned was pending, and has
\* been fulfilled since.
C7_Witness ==
  /\ abortPhase["B"] = "ranPending"
  /\ cb["B"] = "bare"
  /\ promise["B"].st = "fulfilled"

\* C8: when the callback of a chain that was not aborted before threw, the
\* chain is rejected with what was thrown, and its abort() returns a resolved
\* promise and invokes no leaf's abort callback.
C8_ThrowRejects ==
  \A o \in Chains :
    (cb[o] = "throw" /\ NotAbortedBeforeCallback(o))
      => /\ promise[o] = Rejected(Boom)
         /\ abortPhase[o] # "never"
              => /\ abortPromise_[o] = <<"noop", o, 1>>
                 /\ cleanup[abortPromise_[o]] = "resolved"

\* The step of the first abort() on a chain whose callback threw invokes no
\* leaf's abort callback.
C8_ThrowAbortStep ==
  \A o \in Chains :
    (FirstAbortStep(o) /\ cb[o] = "throw")
      => \A l \in Leaves : calls'[l] = calls[l]

\* C8: both of the above: the chain is rejected with what the callback threw,
\* and its abort() resolves without aborting anything.
C8_CallbackThrew ==
  [](C8_ThrowRejects) /\ [][C8_ThrowAbortStep]_vars

\* B was aborted after its callback threw.
C8_Witness ==
  /\ cb["B"] = "throw"
  /\ abortPhase["B"] = "ranSettled"
  /\ promise["B"] = Rejected(Boom)
  /\ \A l \in Leaves : calls[l] = 0

\* C9: when the callback of a chain that was not aborted before returned a
\* plain value, the chain is fulfilled with it; when it returned a bare
\* promise, the chain settles as the promise does.  The promise abort()
\* returns afterwards is pending until then, can resolve once the promise has
\* settled either way, and is never rejected.
C9_BareSettles ==
  \A o \in Chains :
    LET u == promise[upstream[o]]
    IN (cb[o] \in {"plain", "bare"} /\ NotAbortedBeforeCallback(o))
         => /\ cb[o] = "plain"
                 => promise[o] = Fulfilled(PlainValue(u.st = "fulfilled", u.val))
            /\ cb[o] = "bare" => SettlesAs(o, bareOf[o])
            /\ abortPhase[o] # "never"
                 => /\ abortPromise_[o] = <<"wait", o, 1>>
                    /\ cleanup[abortPromise_[o]] # "rejected"
                    /\ cleanup[abortPromise_[o]] = "resolved" => RetSettled(o)
                    /\ (cleanup[abortPromise_[o]] = "pending" /\ RetSettled(o))
                         => ENABLED WaitSettles(abortPromise_[o])

\* The step of the first abort() on such a chain changes neither the chain's
\* promise nor invokes any leaf's abort callback.
C9_BareAbortStep ==
  \A o \in Chains :
    (FirstAbortStep(o) /\ cb[o] \in {"plain", "bare"})
      => /\ promise'[o] = promise[o]
         /\ \A l \in Leaves : calls'[l] = calls[l]

\* C9: both of the above: the chain settles as the plain value or bare
\* promise its callback returned, and its abort() only waits for that.
C9_PlainOrBare ==
  [](C9_BareSettles) /\ [][C9_BareAbortStep]_vars

\* B was aborted while the promise P its callback returned was pending; P was
\* rejected, and the promise abort() returned has resolved.
C9_Witness ==
  /\ cb["B"] = "bare"
  /\ abortPhase["B"] = "ranPending"
  /\ promise["P"].st = "rejected"
  /\ promise["B"] = promise["P"]
  /\ cleanup[abortPromise_["B"]] = "resolved"

\* C10, as claimed: the variable "abort" of a chain that was aborted before
\* its callback ran keeps its first value.
C10_Original ==
  \A o \in Chains :
    abortPhase[o] \in {"pending", "settled"} => abortFn[o] = "upstream"

\* C10, amended: a chain that was aborted before its callback ran has called
\* its first abort function, once, and no other; its onSuccess is not called,
\* so a fulfilled upstream never redirects it (its onError, called after a
\* rejected upstream, does set the variable, to no effect).
C10_RedirectNoEffect ==
  \A o \in Chains :
    abortPhase[o] \in {"pending", "settled"}
      => /\ usedFn[o] = <<"upstream">>
         /\ promise[upstream[o]].st = "fulfilled" => abortFn[o] = "upstream"

\* B was aborted, its onError then returned the nested operation C, and B
\* was aborted again: C's abort() has not been called.
C10_Witness ==
  /\ abortPhase["B"] = "pending"
  /\ abortFn["B"] = "nested"
  /\ exists["C"]
  /\ nAbort = 2
  /\ lastAbort.op = "B"
  /\ lastAbort.phase = "ranSettled"
  /\ abortPhase["C"] = "never"

\* The error a chain has to report: that of its upstream when the chain has
\* no onError to give it to, the exception its callback threw, or that of the
\* promise or operation its callback returned.  "" when there is none.
ErrorToReport(o) ==
  CASE cb[o] = "absent" -> promise[upstream[o]].err
    [] cb[o] = "throw" -> Boom
    [] cb[o] = "bare" -> promise[bareOf[o]].err
    [] cb[o] = "nested" -> promise[nestedOf[o]].err
    [] OTHER -> ""

\* The chain is rejected with the error it has to report, or will be once it
\* has followed the promise that was rejected with it.
ReportsError(o) ==
  \/ promise[o] = Rejected(ErrorToReport(o))
  \/ /\ promise[o].st = "pending"
     /\ promise[o].to # ""
     /\ promise[promise[o].to] = Rejected(ErrorToReport(o))

\* C11, as claimed: whatever abort() calls there were, the error of the
\* upstream or of the callback is what the chain is rejected with.
C11_Original ==
  \A o \in Chains : ErrorToReport(o) # "" => ReportsError(o)

\* C11, amended: the error of the upstream or of the callback is what the
\* chain is rejected with unless abort() was called on the chain before its
\* callback ran; then the chain is rejected with the abort error and the
\* other error is dropped.
C11_ErrorNotSwallowed ==
  \A o \in Chains :
    /\ (ErrorToReport(o) # "" /\ NotAbortedBeforeCallback(o)) => ReportsError(o)
    /\ ~NotAbortedBeforeCallback(o) => promise[o] = Rejected(AbortError)

\* A failed and B, without onError, was rejected with A's error although
\* abort() was called on B afterwards, and on A before it failed; D, aborted
\* before B failed, lost the error.
C11_Witness ==
  /\ cb["B"] = "absent"
  /\ promise["A"] = Rejected(Err)
  /\ promise["B"] = Rejected(Err)
  /\ abortPhase["B"] = "ranSettled"
  /\ abortPhase["A"] = "leafPending"

\* C12: with no abort() call, a chain that has no callback for the branch
\* its upstream took is settled as the upstream is, fulfilled with the same
\* value or rejected with the same error, and none of its callbacks is called.
C12_PassAlong ==
  \A o \in Chains :
    (nAbort = 0 /\ cb[o] = "absent")
      => /\ Settled(promise[upstream[o]])
         /\ promise[o] = promise[upstream[o]]
         /\ cbArgs[o] = <<>>

\* Without any abort() call A failed; B and then D, neither with an onError,
\* are rejected with A's error.
C12_Witness ==
  /\ nAbort = 0
  /\ promise["A"] = Rejected(Err)
  /\ cb["B"] = "absent"
  /\ cb["D"] = "absent"
  /\ promise["D"] = Rejected(Err)

\* C13: with no abort() call, once the upstream is fulfilled with v and the
\* chain's onSuccess returned a plain value, onSuccess has been called exactly
\* once, with v, onError not at all, and the chain is fulfilled with the value
\* onSuccess returned.
C13_SuccessPlain ==
  \A o \in Chains :
    (nAbort = 0 /\ cb[o] = "plain" /\ promise[upstream[o]].st = "fulfilled")
      => LET v == promise[upstream[o]].val
         IN /\ cbArgs[o] = <<[isSuccess |-> TRUE, val |-> v, err |-> ""]>>
            /\ promise[o] = Fulfilled(PlainValue(TRUE, v))

\* completed(2).chain(v => v * 2) is fulfilled with 4, and a second stage of
\* the same kind with 8.
C13_Witness ==
  /\ nAbort = 0
  /\ promise["A"] = Fulfilled(2)
  /\ cb["B"] = "plain"
  /\ promise["B"] = Fulfilled(4)
  /\ cbArgs["D"] = <<[isSuccess |-> TRUE, val |-> 4, err |-> ""]>>
  /\ promise["D"] = Fulfilled(8)

\* The abort function a chain holds after its callback returned or threw,
\* whichever of onSuccess and onError it was.
RedirectedTo(o) ==
  CASE cb[o] = "nested" -> "nested"
    [] cb[o] \in {"plain", "bare"} -> "bare"
    [] cb[o] = "throw" -> "noop"

\* C14: with no abort() call, once the upstream is rejected with e and the
\* chain's onError was there to call, onError has been called once, with e,
\* onSuccess not at all; the chain is fulfilled with the plain value onError
\* returned, settles as the promise or the operation onError returned does,
\* or is rejected with what onError threw; and the chain's abort function is
\* the one a callback of that kind sets on either branch.
C14_FailureHandled ==
  \A o \in Chains :
    (nAbort = 0 /\ InvokedCallback(o))
      => /\ abortFn[o] = RedirectedTo(o)
         /\ promise[upstream[o]].st = "rejected"
              => /\ cbArgs[o] = <<[isSuccess |-> FALSE, val |-> 0,
                                   err |-> promise[upstream[o]].err]>>
                 /\ cb[o] = "plain" => promise[o] = Fulfilled(PlainValue(FALSE, 0))
                 /\ cb[o] = "bare" => SettlesAs(o, bareOf[o])
                 /\ cb[o] = "nested" => SettlesAs(o, nestedOf[o])
                 /\ cb[o] = "throw" => promise[o] = Rejected(Boom)

\* Without any abort() call A failed, B's onError returned the operation C,
\* which failed, and so did B; D's onError then returned a plain value.
C14_Witness ==
  /\ nAbort = 0
  /\ promise["A"] = Rejected(Err)
  /\ cb["B"] = "nested"
  /\ abortFn["B"] = "nested"
  /\ promise["C"] = Rejected(Err)
  /\ promise["B"] = Rejected(Err)
  /\ cb["D"] = "plain"
  /\ abortFn["D"] = "bare"
  /\ promise["D"] = Fulfilled(0)

\* The first abort() call on chain o happens in this step, while its
\* upstream has not settled.
AbortsBeforeUpstreamSettled(o) ==
  /\ FirstAbortStep(o)
  /\ cb[o] = "waiting"
  /\ ~Settled(promise[upstream[o]])

\* C15: the abort() call on a chain whose upstream has not settled rejects
\* the chain with the abort error within the call: the step that makes the
\* call ends with the chain rejected, while the upstream is as unsettled as
\* before and whatever the state of the upstream's cleanup.
C15_CommittedInTheCall ==
  [][\A o \in Chains :
       AbortsBeforeUpstreamSettled(o)
         => /\ promise'[o] = Rejected(AbortError)
            /\ upstream[o] \in Leaves => promise'[upstream[o]] = promise[upstream[o]]]_vars

\* B.abort() was called while A was pending: B is rejected with the abort
\* error although A is still pending and A's cleanup has not ended.
C15_Witness ==
  /\ lastAbort.op = "B"
  /\ lastAbort.phase = "pending"
  /\ nAbort = 1
  /\ promise["B"] = Rejected(AbortError)
  /\ promise["A"].st = "pending"
  /\ cleanup[abortPromise_["A"]] = "pending"

----------------------------------------------------------------------------
\* The claims on all() and the factories, over SpecAll.

\* The positions in the queue of reactions Promise.all has run for members
\* whose promise was rejected.
FailuresSeen ==
  {k \in 1 .. nReacted : promise[members[reactions[k]]].st = "rejected"}

FirstFailure ==
  members[reactions[CHOOSE k \in FailuresSeen : \A j \in FailuresSeen : k <= j]]

\* C16: once Promise.all has reacted to the rejection of a member's promise,
\* the promise of all() is rejected, with the error of the first member that
\* failed, whether or not the other members have settled.
C16_FailFast ==
  FailuresSeen # {}
    => allPromise = [st |-> "rejected", vals |-> <<>>,
                     err |-> promise[FirstFailure].err]

\* N failed before M did, with another error: all() is rejected with N's
\* error although it has not yet reacted to M's.  (With M pending instead,
\* the state before this one, all() is rejected as well.)
C16_Witness ==
  /\ IsMember("M") /\ IsMember("N")
  /\ promise["N"] = Rejected(Err2)
  /\ promise["M"] = Rejected(Err)
  /\ allPromise.st = "rejected"
  /\ allPromise.err = Err2
  /\ nReacted < Len(reactions)

\* C17: the promise of all() is fulfilled only when every member's promise
\* is fulfilled, and then with the members' values in the order of the list.
C17_AllFulfilled ==
  allPromise.st = "fulfilled"
    => /\ Len(allPromise.vals) = Len(members)
       /\ \A i \in DOMAIN members :
            /\ promise[members[i]].st = "fulfilled"
            /\ allPromise.vals[i] = promise[members[i]].val

\* The members settled in another order than the list's, with different
\* values, and all() is fulfilled.
C17_Witness ==
  /\ allPromise.st = "fulfilled"
  /\ \E j, k \in DOMAIN reactions :
       /\ j < k
       /\ reactions[j] > reactions[k]
       /\ allPromise.vals[reactions[j]] # allPromise.vals[reactions[k]]

\* C18: once abort() was called on all(), abort() has been called on every
\* member, settled or not; the promise it returned is resolved only when the
\* promise of every member's abort() is; and no operation's abort callback
\* has been called more than once, however often and on whichever operations
\* abort() was called.
C18_AllAbort ==
  /\ \A o \in Ops : calls[o] <= 1
  /\ abortPromise_["G"] # Null
       => /\ \A i \in DOMAIN members :
               /\ abortPromise_[members[i]] # Null
               /\ calls[members[i]] = 1
          /\ cleanup[abortPromise_["G"]] # "rejected"
          /\ cleanup[abortPromise_["G"]] = "resolved"
               => \A i \in DOMAIN members :
                    cleanup[abortPromise_[members[i]]] = "resolved"

\* abort() was called on all() twice, the first time with M pending and the
\* second time after all() had settled; K had settled before the first call.
\* The abort callbacks of M and K were called once each, and the promise
\* abort() returned has resolved, after M's cleanup.
C18_Witness ==
  /\ IsMember("M") /\ IsMember("K")
  /\ abortPhase["G"] = "leafPending"
  /\ abortPhase["M"] = "leafPending"
  /\ lastAbort.op = "G"
  /\ lastAbort.phase = "leafSettled"
  /\ calls["M"] = 1
  /\ calls["K"] = 1
  /\ cleanup[abortPromise_["G"]] = "resolved"

----------------------------------------------------------------------------
\* The claims on the factories, over SpecFactories.

\* C19: the promise abort() of notAbortable(p) returned is never rejected,
\* is pending while p is, and resolves once p has settled, fulfilled or
\* rejected.
C19_HandshakeFollows ==
  \A o \in NotAbortables :
    aborted(o)
      => LET c == cleanup[abortPromise_[o]]
         IN /\ c # "rejected"
            /\ promise[o].st = "pending" => c = "pending"
            /\ (Settled(promise[o]) /\ c = "pending")
                 => ENABLED CatchSettles(abortPromise_[o])

\* C19: an abort() call on notAbortable(p) leaves its promise, which is p,
\* as it is, and p settles after the call as it may before.
C19_AbortStep ==
  \A o \in NotAbortables :
    /\ AbortStep(o) => promise'[o] = promise[o]
    /\ (aborted(o) /\ promise[o].st = "pending")
         => \A outcome \in Outcomes(o) : ENABLED Settle(o, outcome)

\* C19: notAbortable(p) settles as p does whether or not abort() was called,
\* and the promise abort() returned stays pending while p is pending,
\* resolves once p has settled either way, and is never rejected.
C19_NotAbortable ==
  [](C19_HandshakeFollows) /\ [][C19_AbortStep]_vars

\* abort() was called on N while its promise was pending; the promise was
\* rejected afterwards, and the promise abort() returned has resolved.
C19_Witness ==
  /\ abortPhase["N"] = "leafPending"
  /\ promise["N"] = Rejected(Err2)
  /\ cleanup[abortPromise_["N"]] = "resolved"

\* C20: completed(v) is fulfilled, failed(e) is rejected with e, and the
\* promise of every abort() call on either is resolved.
C20_Settled ==
  /\ \A o \in Completed :
       exists[o] => promise[o].st = "fulfilled" /\ promise[o].val \in Values
  /\ \A o \in Failed : exists[o] => promise[o] = Rejected(Err)
  /\ \A o \in Completed \cup Failed :
       /\ aborted(o) => cleanup[abortPromise_[o]] = "resolved"
       /\ lastAbort.op = o => cleanup[lastAbort.ret] = "resolved"

\* C20: no step, an abort() call or other, changes the promise of
\* completed(v) or of failed(e).
C20_Unchanged ==
  \A o \in Completed \cup Failed : promise'[o] = promise[o]

\* C20: completed(v) is fulfilled with v and failed(e) rejected with e,
\* before and after any number of abort() calls, each of which returns a
\* resolved promise.
C20_CompletedFailed ==
  [](C20_Settled) /\ [][C20_Unchanged]_vars

\* abort() was called twice on completed(2) and on nothing else: its promise
\* is fulfilled with 2 and the promise abort() returned is resolved.
C20_Witness ==
  /\ nAbort = 2
  /\ lastAbort.op = "K"
  /\ \A o \in Ops \ {"K"} : ~aborted(o)
  /\ promise["K"] = Fulfilled(2)
  /\ promise["F"] = Rejected(Err)
  /\ cleanup[lastAbort.ret] = "resolved"

----------------------------------------------------------------------------
\* The claims on aborted(), over SpecAborted.

\* A chain lost to an abort: abort() was called on it before its callback
\* ran, or its callback found its upstream aborted and stopped.
LostToAbort(o) ==
  abortPhase[o] \in {"pending", "settled"} \/ cb[o] = "stopped"

\* C21: the promise of aborted() is rejected with the error abortError()
\* makes, of severity CRITICAL, category PLAYER and code OPERATION_ABORTED; a
\* handler attached afterwards, that of chain(), is run on the rejected
\* branch with that error; and every chain that lost to an abort is rejected
\* with the same error.
C21_AbortedOperation ==
  /\ abortError.severity = "CRITICAL"
  /\ abortError.category = "PLAYER"
  /\ abortError.code = "OPERATION_ABORTED"
  /\ \A x \in Aborted : exists[x] => promise[x] = Rejected(abortError.code)
  /\ \A o \in Chains :
       /\ (upstream[o] \in Aborted /\ cb[o] # "waiting")
            => /\ cb[o] # "stopped"
               /\ InvokedCallback(o)
                    => cbArgs[o] = <<[isSuccess |-> FALSE, val |-> 0,
                                      err |-> abortError.code]>>
               /\ (cb[o] = "absent" /\ ~LostToAbort(o))
                    => promise[o] = Rejected(abortError.code)
       /\ LostToAbort(o) => promise[o] = Rejected(abortError.code)

\* abort() was called on Y before its callback ran; its onError was then
\* called with the abort error of X and returned a plain value: Y stays
\* rejected with the abort error.
C21_Witness ==
  /\ promise["X"] = Rejected(AbortError)
  /\ abortPhase["Y"] = "settled"
  /\ cb["Y"] = "plain"
  /\ cbArgs["Y"] = <<[isSuccess |-> FALSE, val |-> 0, err |-> AbortError]>>
  /\ promise["Y"] = Rejected(AbortError)

----------------------------------------------------------------------------
\* More claims on the pipeline, over Spec.

\* C22: the flag "aborted" of an operation is false as long as abort() has
\* not been called on it, from outside or by an abort function, and true
\* from the first call on, whatever has settled and whether or not the
\* cleanup has ended.
C22_AbortedFlag ==
  \A o \in Ops : aborted(o) <=> abortPhase[o] # "never"

\* abort() was called on D with everything pending: A, B and D are flagged
\* while A's cleanup has not ended; then A was fulfilled and the callbacks
\* ran, and the flags are as they were, that of E, never aborted, false.
C22_Witness ==
  /\ abortPhase["D"] = "pending"
  /\ aborted("A") /\ aborted("B") /\ aborted("D")
  /\ cleanup[abortPromise_["A"]] = "pending"
  /\ promise["A"].st = "fulfilled"
  /\ cb["B"] # "waiting"
  /\ cb["D"] = "nested"
  /\ exists["E"]
  /\ ~aborted("E")

----------------------------------------------------------------------------
\* The claim on finally(), over SpecFactories.

\* C23: onFinal is not called before the promise has settled, and not more
\* often than finally() was called; each call has the flag true after a
\* fulfilled promise and false after a rejected one; a handler that has not
\* run can run once the promise has settled; and finally() returned the
\* operation it was called on.
C23_OnFinal ==
  \A o \in NotAbortables \cup Completed \cup Failed :
    /\ Len(final[o].args) <= final[o].n
    /\ ~Settled(promise[o]) => final[o].args = <<>>
    /\ \A i \in DOMAIN final[o].args :
         final[o].args[i] = (promise[o].st = "fulfilled")
    /\ (Settled(promise[o]) /\ Len(final[o].args) < final[o].n)
         => ENABLED FinalRuns(o)
    /\ final[o].n > 0 => final[o].ret = o

\* C23: neither a finally() call nor a call of onFinal changes a promise or
\* the abort state of an operation.
C23_Frame ==
  final' # final => UNCHANGED <<promise, abortPromise_, cleanup, calls>>

\* C23: finally(onFinal) has onFinal called once when the promise settles,
\* not before, with true after a fulfilment and false after a rejection; it
\* changes neither the promise nor the abort state, and returns the operation
\* it was called on.
C23_Finally ==
  [](C23_OnFinal) /\ [][C23_Frame]_vars

\* finally() was called on N while it was pending and after abort() was;
\* N was rejected and onFinal called with false.  On K, onFinal was called
\* with true.
C23_Witness ==
  /\ aborted("N")
  /\ promise["N"] = Rejected(Err2)
  /\ final["N"] = [n |-> 1, args |-> <<FALSE>>, ret |-> "N"]
  /\ final["K"] = [n |-> 1, args |-> <<TRUE>>, ret |-> "K"]
  /\ promise["K"].st = "fulfilled"

----------------------------------------------------------------------------
\* More claims on the pipeline, over Spec.

\* The first abort() call on chain o came while its variable "abort" held
\* its first value: before its callback ran, or after a callback that had
\* nothing to call.
AbortedBeforeRedirect(o) ==
  \/ abortPhase[o] \in {"pending", "settled"}
  \/ aborted(o) /\ cb[o] \in {"absent", "stopped"}

\* C24: the promise abort() returned for a chain that was aborted before
\* its abort function was redirected is the promise of its upstream's
\* abort(), for B the one A's abort callback returned, in whatever state
\* that is; every later abort() call on the chain returns the same promise,
\* and the abort function was called once.
C24_UpstreamCleanup ==
  \A o \in Chains :
    AbortedBeforeRedirect(o)
      => /\ abortPromise_[upstream[o]] # Null
         /\ firstRet[o] = abortPromise_[upstream[o]]
         /\ abortPromise_[o] = firstRet[o]
         /\ lastAbort.op = o => lastAbort.ret = firstRet[o]
         /\ calls[o] = 1
         /\ upstream[o] \in Leaves
              => firstRet[o] = <<"cleanup", upstream[o], 1>>

\* B.abort() was called with A pending, and again after B's onError had
\* returned the nested operation C: the second call returned the promise of
\* A's cleanup, as the first had, and that promise has resolved.
C24_Witness ==
  /\ abortPhase["B"] = "pending"
  /\ cb["B"] = "nested"
  /\ nAbort = 2
  /\ lastAbort.op = "B"
  /\ lastAbort.phase = "ranSettled"
  /\ lastAbort.ret = <<"cleanup", "A", 1>>
  /\ calls["A"] = 1
  /\ calls["B"] = 1
  /\ cleanup[lastAbort.ret] = "resolved"

----------------------------------------------------------------------------
\* The liveness claim, over SpecLive.

\* The callback of chain o has run and what it returned, if a promise or an
\* operation, has settled.
UnitSettled(o) ==
  /\ cb[o] # "waiting"
  /\ cb[o] = "bare" => Settled(promise[bareOf[o]])
  /\ cb[o] = "nested" => Settled(promise[nestedOf[o]])

\* C25: once the upstream of a chain has settled its callback runs; once the
\* callback has run and what it returned has settled, the chain settles; and
\* a chain aborted before its callback ran is settled, whether or not its
\* upstream ever settles.
C25_ChainSettles ==
  \A o \in {"B"} :
    /\ Settled(promise[upstream[o]]) ~> cb[o] # "waiting"
    /\ UnitSettled(o) ~> Settled(promise[o])
    /\ [](abortPhase[o] \in {"pending", "settled"} => Settled(promise[o]))

\* A failed, B's onError returned the bare promise P, which was fulfilled,
\* and B has followed it.
C25_Witness ==
  /\ promise["A"].st = "rejected"
  /\ cb["B"] = "bare"
  /\ promise["P"].st = "fulfilled"
  /\ promise["B"] = promise["P"]
  /\ abortPhase["B"] = "never"

\* C26: a chain calls at most one of onSuccess and onError, at most once, and
\* calls onSuccess only when abort() has not been called on its upstream.
C26_CalledOnce ==
  [][\A o \in Chains :
       cbArgs'[o] # cbArgs[o] =>
         /\ cbArgs[o] = <<>>
         /\ Len(cbArgs'[o]) = 1
         /\ cbArgs'[o][1].isSuccess => ~aborted(upstream[o])]_vars

\* B's onSuccess and D's onError have each been called, once, and abort()
\* was called on A after B's onSuccess.
C26_Witness ==
  /\ Len(cbArgs["B"]) = 1
  /\ cbArgs["B"][1].isSuccess
  /\ Len(cbArgs["D"]) = 1
  /\ ~cbArgs["D"][1].isSuccess
  /\ aborted("A")

\* C27: when the then-callback of a chain runs after its upstream was
\* fulfilled and abort() had been called on the upstream, the chain's
\* callback is not called and the chain is rejected with the abort error,
\* its own aborted flag staying as it was; when it runs after the upstream
\* was rejected, whatever was aborted, onError is called with the error or,
\* with no onError, the error is passed to the chain's promise.
C27_UpstreamFlag ==
  [][\A o \in Chains :
       (cb[o] = "waiting" /\ cb'[o] # "waiting") =>
         LET u == upstream[o] IN
           /\ abortPromise_' = abortPromise_
           /\ (promise[u].st = "fulfilled" /\ aborted(u))
                => /\ cb'[o] = "stopped"
                   /\ cbArgs'[o] = <<>>
                   /\ promise'[o] = Rejected(AbortError)
           /\ promise[u].st = "rejected"
                => /\ cb'[o] # "stopped"
                   /\ cb'[o] = "absent"
                        => /\ cbArgs'[o] = <<>>
                           /\ promise'[o] = IF Settled(promise[o])
                                              THEN promise[o]
                                              ELSE Rejected(promise[u].err)
                   /\ cb'[o] # "absent"
                        => cbArgs'[o] = <<[isSuccess |-> FALSE, val |-> 0,
                                           err |-> promise[u].err]>>]_vars

\* abort() was called on A while A was pending, A was rejected and B's
\* onError was called all the same; abort() was then called on B, B was
\* fulfilled, and D was rejected with the abort error without a call of its
\* onSuccess, while D.aborted is false.
C27_Witness ==
  /\ abortPhase["A"] = "leafPending"
  /\ promise["A"].st = "rejected"
  /\ Len(cbArgs["B"]) = 1
  /\ aborted("B")
  /\ promise["B"].st = "fulfilled"
  /\ cb["D"] = "stopped"
  /\ cbArgs["D"] = <<>>
  /\ promise["D"] = Rejected(AbortError)
  /\ ~aborted("D")

\* The abort function a chain held at the first call of its abort(): the
\* one chain() made while the then-callback had not run or had not called a
\* callback, and afterwards the one the callback's result set.
DelegateAtFirstCall(o) ==
  IF abortPhase[o] \in {"pending", "settled"} \/ cb[o] \in {"absent", "stopped"}
    THEN "upstream"
    ELSE RedirectedTo(o)

\* C28: over all the abort() calls on a chain exactly one abort function is
\* called through it, the one it held at the first call; one a callback set
\* after that call is never called through the chain.
C28_OneDelegate ==
  \A o \in Chains :
    /\ ~aborted(o) => usedFn[o] = <<>>
    /\ aborted(o) => usedFn[o] = <<DelegateAtFirstCall(o)>>

\* A failed, B.abort() was called before the then-callback ran, onError then
\* returned the nested operation C, and B.abort() was called again: C was
\* not aborted.
C28_Witness ==
  /\ abortPhase["B"] = "settled"
  /\ promise["A"].st = "rejected"
  /\ cb["B"] = "nested"
  /\ abortFn["B"] = "nested"
  /\ nAbort = 2
  /\ lastAbort.op = "B"
  /\ lastAbort.phase # "settled"
  /\ usedFn["B"] = <<"upstream">>
  /\ ~aborted("C")

\* C29: a chain whose then-callback found no callback for the branch taken
\* keeps the abort function chain() made; when abort() is first called on
\* it after it settled, abort() has been called on its upstream, whose abort
\* function has run once, and the chain is settled as its upstream is.
C29_NoRedirect ==
  \A o \in Chains :
    cb[o] = "absent"
      => /\ abortFn[o] = "upstream"
         /\ abortPhase[o] = "ranSettled"
              => /\ usedFn[o] = <<"upstream">>
                 /\ aborted(upstream[o])
                 /\ calls[upstream[o]] = 1
                 /\ firstRet[o] = abortPromise_[upstream[o]]
                 /\ promise[o] = promise[upstream[o]]

\* A was fulfilled, B had no onSuccess and took A's value; B.abort() was
\* then called, the first abort() call of all, and A's abort function ran.
C29_Witness ==
  /\ promise["A"].st = "fulfilled"
  /\ cb["B"] = "absent"
  /\ promise["B"] = promise["A"]
  /\ abortPhase["B"] = "ranSettled"
  /\ abortPhase["A"] = "leafSettled"
  /\ nAbort = 1
  /\ calls["A"] = 1
  /\ \E id \in DOMAIN cleanup : id[2] = "A"

\* C30: whether or not abort() was called on all(), its promise is what the
\* members' promises Promise.all has reacted to make it: rejected with the
\* error of the first that failed, fulfilled with the members' values in the
\* order of the list once all are fulfilled, pending otherwise; it is
\* rejected with the abort error only when a member's promise is.
C30_MembersDecide ==
  /\ allPromise =
       IF FailuresSeen # {}
         THEN [st |-> "rejected", vals |-> <<>>,
               err |-> promise[FirstFailure].err]
       ELSE IF nReacted = Len(members)
         THEN [st |-> "fulfilled",
               vals |-> [j \in 1 .. Len(members) |-> promise[members[j]].val],
               err |-> ""]
         ELSE PendingAll
  /\ (allPromise.st = "rejected" /\ allPromise.err = AbortError)
       => \E i \in DOMAIN members : promise[members[i]] = Rejected(AbortError)

\* abort() was called on all() while it and its members M and N were
\* pending; M and N were fulfilled all the same, with different values, and
\* all() is fulfilled with both.
C30_Witness ==
  /\ IsMember("M") /\ IsMember("N")
  /\ abortPhase["G"] = "leafPending"
  /\ abortPhase["M"] = "leafPending"
  /\ abortPhase["N"] = "leafPending"
  /\ allPromise.st = "fulfilled"
  /\ promise["M"].val # promise["N"].val
  /\ \A i \in DOMAIN members : allPromise.vals[i] = promise[members[i]].val

----------------------------------------------------------------------------
\* The claims on the GapJumpingController, over SpecGap.

\* The step made a jump: the controller wrote video_.currentTime, moved its
\* counter or sent an event.
JumpMade ==
  \/ lastJump'.jumped
  \/ controller'.gapsJumped_ # controller.gapsJumped_
  \/ sent' # sent

\* C31: no step makes a jump while the element's readyState is 0, nor one
\* that ends with onStarted() not yet called, whichever handler polls.
C31_NoJumpBeforeStart ==
  [][(video.readyState = 0 \/ ~controller'.started_) => ~JumpMade]_vars

\* onSegmentAppended() was called, and so polled, before onStarted(), on an
\* element that is ready, playing and in no seek: no jump was made.
C31_Witness ==
  /\ ~controller.started_
  /\ lastCall = "onSegmentAppended"
  /\ controller.hadSegmentAppended_
  /\ video.readyState # 0
  /\ ~video.paused
  /\ ~video.seeking
  /\ controller.gapsJumped_ = 0
  /\ sent = <<>>

\* C32: the appended flag is set exactly when onSegmentAppended() was
\* called later than the last onSeeking(), and a jump over a gap of index 0
\* is made only by a poll that finds it set.
C32_FirstGapAfterAppend ==
  /\ controller.hadSegmentAppended_ <=> lastCall = "onSegmentAppended"
  /\ (lastJump.jumped /\ lastJump.gapIndex = 0)
       => /\ lastJump.appended
          /\ lastCall = "onSegmentAppended"

\* During a seek the controller had been told of by onSeeking(), which
\* cleared the flag, a segment was appended, and a gap of index 0 was jumped.
C32_Witness ==
  /\ lastJump.jumped
  /\ lastJump.gapIndex = 0
  /\ lastJump.seeking
  /\ lastJump.announced
  /\ lastCall = "onSegmentAppended"

\* C33: a jump is made while the element is seeking only when the
\* controller has been told of the seek the element is in, by onSeeking()
\* or by the seeking case of onStarted(), since that seek began.
C33_AnnouncedSeek ==
  (lastJump.jumped /\ lastJump.seeking) => lastJump.announced

\* C34: a jump is made on a paused element only from the recorded start
\* time and with autoplay on; after a jump from the recorded start time the
\* recorded start time is the target of the jump, and after any other jump
\* it is what it was.
C34_PausedJump ==
  lastJump.jumped
    => /\ lastJump.paused
            => (lastJump.from = lastJump.startTime /\ lastJump.autoplay)
       /\ controller.startTime_ =
            IF lastJump.from = lastJump.startTime
              THEN lastJump.to
              ELSE lastJump.startTime

\* A second jump on a paused element, from the target of an earlier jump:
\* the start time had moved there.
C34_Witness ==
  /\ controller.gapsJumped_ = 2
  /\ lastJump.jumped
  /\ lastJump.paused
  /\ lastJump.from > 0
  /\ lastJump.startTime = lastJump.from
  /\ controller.startTime_ = video.currentTime
  /\ video.paused

\* The counter equals the number of events sent, all of them GapJumped; a
\* step that made a jump wrote a current time later than the one the poll
\* read and earlier than the end of the seek range, which is the element's
\* time now.
C35_Agree ==
  /\ controller.gapsJumped_ = Len(sent)
  /\ \A i \in DOMAIN sent : sent[i] = "GapJumped"
  /\ lastJump.jumped
       => /\ lastJump.from < lastJump.to
          /\ lastJump.to < lastJump.seekEnd
          /\ video.currentTime = lastJump.to

\* The counter and the events move together and by one, in a step that
\* writes the current time, and never otherwise.
C35_Step ==
  JumpMade =>
    /\ lastJump'.jumped
    /\ controller'.gapsJumped_ = controller.gapsJumped_ + 1
    /\ sent' = Append(sent, "GapJumped")

\* C35: getGapsJumped() is always the number of GapJumped events sent; each
\* jump writes a current time later than the one read and earlier than the
\* end of the seek range, adds one to the counter and sends one event, and
\* no other step changes the counter.
C35_CounterAndEvents == [](C35_Agree) /\ [][C35_Step]_vars

\* On a platform where the target is padded, with a padding of one tick,
\* the controller has jumped twice and sent two events, the second just now.
C35_Witness ==
  /\ config.pads
  /\ config.gapPadding = 1
  /\ lastJump.jumped
  /\ controller.gapsJumped_ = 2
  /\ Len(sent) = 2

====
